---- MODULE Spec2Model ----
(***************************************************************************)
(* Gregory Horror Show importer: the .ghs animation timeline compiler      *)
(* (GhsImporter.import_stuff and the scalehide timeline algebra), the .pm2 *)
(* model decoder (Pm2Model.from_file) and the per-file batch loops.        *)
(***************************************************************************)
EXTENDS Integers, Sequences, FiniteSets, TLC

(***************************************************************************)
(* Bounds of the model                                                     *)
(***************************************************************************)
MaxKeyframes == 2
MaxClips == 2

(***************************************************************************)
(* Program constants                                                       *)
(***************************************************************************)
Sentinel == 999
PadStep == 100

\* Python's None, for a pm2 index, a frame number or a keyframe
None == -1000

AnimMethods == {"1LONG", "1LONG_EVERY100", "DRIVER", "SEPARATE_ARMATURES"}

Min2(a, b) == IF a <= b THEN a ELSE b

RECURSIVE Flatten(_)
Flatten(ss) == IF ss = <<>> THEN <<>> ELSE ss[1] \o Flatten(Tail(ss))

Max2(a, b) == IF a >= b THEN a ELSE b

SetMax(S) == CHOOSE x \in S : \A y \in S : y <= x

SetMin(S) == CHOOSE x \in S : \A y \in S : x <= y

RECURSIVE SeqOfSet(_)
\* the elements of a finite set of integers as an increasing sequence
SeqOfSet(S) == IF S = {} THEN <<>> ELSE <<SetMin(S)>> \o SeqOfSet(S \ {SetMin(S)})

Range(s) == {s[i] : i \in 1..Len(s)}

RECURSIVE Dedupe(_)
\* a sequence without its repeated elements (first occurrences kept)
Dedupe(s) ==
    IF s = <<>> THEN <<>>
    ELSE LET front == Dedupe(SubSeq(s, 1, Len(s) - 1))
         IN IF s[Len(s)] \in Range(front) THEN front ELSE Append(front, s[Len(s)])

(***************************************************************************)
(* Timelines: sequences of <<frame, value>>.  An F-Curve keeps its         *)
(* keyframes in increasing frame order, one per frame.                     *)
(***************************************************************************)
Frames(tl) == {tl[i][1] : i \in 1..Len(tl)}

Values(tl) == {tl[i][2] : i \in 1..Len(tl)}

\* bone.keyframe_insert(..., frame=f) with the property set to v: a keyframe
\* already at f is replaced
keyframe_insert(fc, f, v) ==
    SelectSeq(fc, LAMBDA s : s[1] < f) \o << <<f, v>> >> \o SelectSeq(fc, LAMBDA s : s[1] > f)

\* the keyframes of an F-Curve, in increasing frame order
fcurve_to_timeline(fc) == fc

\* the keyframes of the F-Curve are replaced by the timeline
timeline_into_fcurve(tl) == tl

\* value of timeline number i at frame f during the sweep of
\* sum_scalehide_timelines: the last keyframe at or before f, 1 before any
CurrentVal(tl, f) ==
    LET seen == {j \in 1..Len(tl) : tl[j][1] >= 0 /\ tl[j][1] <= f}
        latest == {j \in seen : \A k \in seen : tl[k][1] <= tl[j][1]}
    IN IF seen = {} THEN 1 ELSE tl[SetMax(latest)][2]

sum_scalehide_timelines(timelines) ==
    LET nonempty == SelectSeq(timelines, LAMBDA x : x # <<>>)
    IN IF Len(nonempty) = 1 THEN nonempty[1]
       ELSE IF Len(nonempty) = 0 THEN <<>>
       ELSE LET padded == [i \in 1..Len(nonempty) |->
                              IF nonempty[i][1][1] > 0
                              THEN << <<0, nonempty[i][1][2]>> >> \o nonempty[i]
                              ELSE nonempty[i]]
                keyed == UNION {Frames(padded[i]) : i \in 1..Len(padded)}
                last_keyframe == SetMax(keyed \cup {0})
                swept == SeqOfSet({f \in keyed : f >= 0 /\ f <= last_keyframe})
            IN [k \in 1..Len(swept) |->
                   <<swept[k],
                     SetMax({CurrentVal(padded[i], swept[k]) : i \in 1..Len(padded)})>>]

\* a value that is not 0 is left as it is
invert_scalehide_timeline_Keep1(timeline) ==
    [i \in 1..Len(timeline) |->
        <<timeline[i][1], IF timeline[i][2] = 0 THEN 1 ELSE timeline[i][2]>>]

invert_scalehide_timeline(timeline) ==
    [i \in 1..Len(timeline) |->
        <<timeline[i][1], IF timeline[i][2] = 0 THEN 1 ELSE 0>>]

RECURSIVE SimplifyFrom(_, _)
SimplifyFrom(timeline, previous_value) ==
    IF timeline = <<>> THEN <<>>
    ELSE (IF timeline[1][2] # previous_value THEN <<timeline[1]>> ELSE <<>>)
         \o SimplifyFrom(Tail(timeline), timeline[1][2])

simplify_scalehide_timeline(timeline) == SimplifyFrom(timeline, None)

fcurve_is_all0(fc) ==
    IF fcurve_to_timeline(fc) = <<>> THEN FALSE ELSE Values(fcurve_to_timeline(fc)) = {0}

\* what the host shows for a scale F-Curve with constant interpolation: the
\* last keyframe at or before f, the first keyframe before that
EvalAt(tl, f) ==
    LET seen == {j \in 1..Len(tl) : tl[j][1] <= f}
    IN IF seen = {} THEN tl[1][2] ELSE tl[SetMax(seen)][2]

(***************************************************************************)
(* Exact fractions <<numerator, denominator>> for the blend weights        *)
(***************************************************************************)
Abs(x) == IF x < 0 THEN -x ELSE x

RECURSIVE Gcd(_, _)
Gcd(a, b) == IF b = 0 THEN a ELSE Gcd(b, a % b)

RatNorm(n, d) ==
    LET g == Gcd(Abs(n), Abs(d))
        sgn == IF d < 0 THEN -1 ELSE 1
    IN <<sgn * (n \div g), sgn * (d \div g)>>

Rat(n) == <<n, 1>>

RatAdd(x, y) == RatNorm(x[1] * y[2] + y[1] * x[2], x[2] * y[2])

RatSub(x, y) == RatNorm(x[1] * y[2] - y[1] * x[2], x[2] * y[2])

RatMul(x, y) == RatNorm(x[1] * y[1], x[2] * y[2])

(***************************************************************************)
(* Maps with a growing key set (Python dicts)                              *)
(***************************************************************************)
EmptyMap == [x \in {} |-> x]

Put(f, k, v) == [x \in DOMAIN f \cup {k} |-> IF x = k THEN v ELSE f[x]]

Get(f, k, default) == IF k \in DOMAIN f THEN f[k] ELSE default

Drop(f, keys) == [x \in DOMAIN f \ keys |-> f[x]]

(***************************************************************************)
(* State of one GhsImporter.import_stuff run, of one Pm2Model.from_file    *)
(* decode and of one batch import                                          *)
(***************************************************************************)
VARIABLES
    inp,                           \* the .ghs data, the .mpr pose tracks, the pm2 files, anim_method
    pc,                            \* position in import_stuff
    animidx, boneidx, keyframeidx, \* loop counters
    frame_offset, next_anim_start_frame, this_anim_start_frame,
    current_anim_endhide_frame,
    prev_pm2idx, first_delta_frame,
    pm2idx_to_scalehidebone, pm2idx_to_meshobj, pm2idx_to_driverbone,
    boneidx_to_default_scalehide_bonename,
    default_scalehide_bonename_to_pm2mesh,
    animidx_to_scalehide_bones, boneidx_to_scalehide_bones,
    deleteme_bonenames,
    shapekeys_already_keyframed,
    armbones,                      \* armature -> names of its scalehide and driver bones
    meshes,                        \* the mesh datablocks that exist
    fcurves,                       \* action -> bone name -> scale F-Curve
    loc_fcurves,                   \* action -> driver bone name -> location.x F-Curve
    sk_fcurves,                    \* mesh -> F-Curve of its shape key "Anim"
    resolved,                      \* the scale F-Curves as they were before the cleanup
    schedule,                      \* per animation started: its offset, length and start frames
    log                            \* per keyframe processed: what was resolved and written for it

cvars == <<inp, pc, animidx, boneidx, keyframeidx, frame_offset, next_anim_start_frame,
           this_anim_start_frame, current_anim_endhide_frame, prev_pm2idx,
           first_delta_frame, pm2idx_to_scalehidebone, pm2idx_to_meshobj,
           pm2idx_to_driverbone, boneidx_to_default_scalehide_bonename,
           default_scalehide_bonename_to_pm2mesh, animidx_to_scalehide_bones,
           boneidx_to_scalehide_bones, deleteme_bonenames, shapekeys_already_keyframed,
           armbones, meshes, fcurves, loc_fcurves, sk_fcurves, resolved, schedule,
           log>>

\* f"b{boneidx}_p{pm2idx:03x}_hide"
HideName(b, p) == [kind |-> "hide", a |-> None, b |-> b, p |-> p, k |-> None]

\* f"a{animidx}_b{boneidx}_k{int(keyframe_start)}_DELETEME"
DeletemeName(a, b, k) == [kind |-> "DELETEME", a |-> a, b |-> b, p |-> None, k |-> k]

\* f"b{boneidx}_p{pm2idx:03x}_driver"
DriverName(b, p) == [kind |-> "driver", a |-> None, b |-> b, p |-> p, k |-> None]

\* mesh f"b{boneidx}_p{pm2idx:03x}", or f"a{animidx}_b{boneidx}_p{pm2idx:03x}"
MeshName(a, b, p) == [a |-> a, b |-> b, p |-> p]

IsLong == inp.anim_method \in {"1LONG", "1LONG_EVERY100"}

NumAnims == Len(inp.anims)

NumBones == Len(inp.defaultbodyparts)

\* the armature object the current animation works on
CurArm == IF inp.anim_method = "SEPARATE_ARMATURES" THEN animidx + 1 ELSE 0

\* armobj.animation_data.action of the current animation
CurAct == IF IsLong THEN 0 ELSE animidx + 1

CurAnim == inp.anims[animidx + 1]

CurKeyframes == CurAnim.animation_data[boneidx + 1]

any_nonempty_anims(anims) ==
    \E i \in 1..Len(anims) :
        \E b \in 1..Len(anims[i].animation_data) : anims[i].animation_data[b] # <<>>

\* full_anim_len = max(full_anim_len, ...) over a list of lengths
RECURSIVE MaxOver(_, _)
MaxOver(cur, s) == IF s = <<>> THEN cur ELSE MaxOver(Max2(cur, s[1]), Tail(s))

\* the full length of animation a without its mpr
fullanimlengths_NoMpr(a) ==
    LET anim == inp.anims[a + 1]
        starts == Flatten([b \in 1..Len(anim.animation_data) |->
                             [k \in 1..Len(anim.animation_data[b]) |->
                                 anim.animation_data[b][k].keyframe_start]])
        below(ks) == ks < Sentinel
    IN MaxOver(anim.anim_len, SelectSeq(starts, below))

\* lines 234-246: the full length of animation a, from its anim_len, its mpr
\* and its keyframes
fullanimlengths(a) ==
    LET anim == inp.anims[a + 1]
        after_mpr == MaxOver(anim.anim_len, anim.mpr)
        starts == Flatten([b \in 1..Len(anim.animation_data) |->
                             [k \in 1..Len(anim.animation_data[b]) |->
                                 anim.animation_data[b][k].keyframe_start]])
        below(ks) == ks < Sentinel
    IN MaxOver(after_mpr, SelectSeq(starts, below))

\* armobj.animation_data is not None: a pose, scale or driver keyframe was
\* inserted on the armature (0: the original one, a + 1: the copy of animation a)
HasAnimationData(arm) ==
    \/ \E i \in 1..NumAnims :
          /\ i <= animidx + 1
          /\ (arm = 0 \/ i = arm)
          /\ \E j \in 1..Len(inp.anims[i].mpr) : inp.anims[i].mpr[j] > 0
    \/ \E act \in DOMAIN fcurves : (arm = 0 \/ act = arm) /\ DOMAIN fcurves[act] # {}
    \/ \E act \in DOMAIN loc_fcurves : (arm = 0 \/ act = arm) /\ DOMAIN loc_fcurves[act] # {}

FC(fcs, act, name) == Get(Get(fcs, act, EmptyMap), name, <<>>)

SetFC(fcs, act, name, tl) == Put(fcs, act, Put(Get(fcs, act, EmptyMap), name, tl))

\* posebone.keyframe_insert("scale", frame=f) on the action act
KeyScale(fcs, act, name, f, v) == SetFC(fcs, act, name, keyframe_insert(FC(fcs, act, name), f, v))

(***************************************************************************)
(* import_stuff, lines 164-254: the default body parts                     *)
(***************************************************************************)
DefaultBones ==
    {b \in 0..NumBones - 1 :
        inp.defaultbodyparts[b + 1] # None /\ inp.defaultbodyparts[b + 1] >= 0}

\* the last bone whose default body part is pm2 p
LastDefaultBoneOf(p) == SetMax({b \in DefaultBones : inp.defaultbodyparts[b + 1] = p})

LoadDefaults ==
    /\ pc = "load_defaults"
    /\ LET pm2s == {inp.defaultbodyparts[b + 1] : b \in DefaultBones}
           hidden == any_nonempty_anims(inp.anims)
           hide(b) == HideName(b, inp.defaultbodyparts[b + 1])
           mesh(b) == MeshName(None, b, inp.defaultbodyparts[b + 1])
       IN IF \E p \in pm2s : p \in inp.missing
          THEN /\ pc' = "FileNotFoundError"
               /\ UNCHANGED <<meshes, armbones, pm2idx_to_scalehidebone, pm2idx_to_meshobj,
                              boneidx_to_default_scalehide_bonename,
                              default_scalehide_bonename_to_pm2mesh>>
          ELSE /\ pc' = "anim_loop"
               /\ meshes' = {mesh(b) : b \in DefaultBones}
               /\ armbones' = Put(armbones, 0, IF hidden THEN {hide(b) : b \in DefaultBones} ELSE {})
               /\ pm2idx_to_scalehidebone' =
                      IF hidden THEN [p \in pm2s |-> hide(LastDefaultBoneOf(p))] ELSE EmptyMap
               /\ pm2idx_to_meshobj' =
                      IF hidden THEN [p \in pm2s |-> mesh(LastDefaultBoneOf(p))] ELSE EmptyMap
               /\ boneidx_to_default_scalehide_bonename' =
                      IF hidden THEN [b \in DefaultBones |-> hide(b)] ELSE EmptyMap
               /\ default_scalehide_bonename_to_pm2mesh' =
                      IF hidden THEN [n \in {hide(b) : b \in DefaultBones} |->
                                         mesh(n.b)]
                      ELSE EmptyMap
    /\ UNCHANGED <<log, inp, animidx, boneidx, keyframeidx, frame_offset, next_anim_start_frame,
                   this_anim_start_frame, current_anim_endhide_frame, prev_pm2idx,
                   first_delta_frame, pm2idx_to_driverbone, animidx_to_scalehide_bones,
                   boneidx_to_scalehide_bones, deleteme_bonenames,
                   shapekeys_already_keyframed, fcurves, loc_fcurves, sk_fcurves, resolved, schedule>>

(***************************************************************************)
(* import_stuff, lines 256-408: start of one animation, bones without      *)
(* keyframes                                                               *)
(***************************************************************************)
\* the next animation starts on the last frame of this one
NextStart1Long_NoGap(offset, last_frame) == offset + last_frame

\* line 378: where the animation after this one starts in 1LONG mode
NextStart1Long(offset, last_frame) == offset + last_frame + 1

\* an animation that ends on a multiple of 100 is followed at once
NextStartEvery100_Ceil(offset, last_frame) ==
    ((offset + last_frame + PadStep - 1) \div PadStep) * PadStep

\* lines 380-381: where the animation after this one starts in 1LONG_EVERY100 mode
NextStartEvery100(offset, last_frame) ==
    ((offset + last_frame + PadStep) \div PadStep) * PadStep

\* where the animation after this one starts (lines 375-382)
NextAnimStartFrame(method, offset, last_frame) ==
    IF method = "1LONG" THEN NextStart1Long(offset, last_frame)
    ELSE IF method = "1LONG_EVERY100" THEN NextStartEvery100(offset, last_frame)
    ELSE 0

AppendTo(m, key, names) == Put(m, key, Get(m, key, <<>>) \o names)

StartAnim ==
    /\ pc = "anim_loop"
    /\ animidx < NumAnims
    /\ LET separate == inp.anim_method = "SEPARATE_ARMATURES"
           defaults == DOMAIN boneidx_to_default_scalehide_bonename
           copy(b) == MeshName(animidx, b, inp.defaultbodyparts[b + 1])
           pm2s == {inp.defaultbodyparts[b + 1] : b \in defaults}
           last_frame == fullanimlengths(animidx)
           next_start == NextAnimStartFrame(inp.anim_method, frame_offset, last_frame)
       IN /\ armbones' = IF separate THEN Put(armbones, animidx + 1, armbones[0]) ELSE armbones
          /\ meshes' = IF separate THEN meshes \cup {copy(b) : b \in defaults} ELSE meshes
          /\ pm2idx_to_meshobj' =
                 IF separate
                 THEN [p \in pm2s |-> copy(SetMax({b \in defaults : inp.defaultbodyparts[b + 1] = p}))]
                 ELSE pm2idx_to_meshobj
          /\ default_scalehide_bonename_to_pm2mesh' =
                 IF separate
                 THEN [n \in {boneidx_to_default_scalehide_bonename[b] : b \in defaults} |->
                          copy(n.b)]
                 ELSE default_scalehide_bonename_to_pm2mesh
          /\ this_anim_start_frame' = next_anim_start_frame
          /\ next_anim_start_frame' = next_start
          /\ current_anim_endhide_frame' = next_start
          /\ animidx_to_scalehide_bones' =
                 IF CurAnim.animation_data = <<>>
                 THEN AppendTo(animidx_to_scalehide_bones, animidx,
                               [i \in 1..Cardinality(defaults) |->
                                   boneidx_to_default_scalehide_bonename[SeqOfSet(defaults)[i]]])
                 ELSE animidx_to_scalehide_bones
    /\ shapekeys_already_keyframed' = {}
    /\ boneidx' = 0
    /\ pc' = "bone_loop"
    /\ UNCHANGED <<log, inp, animidx, keyframeidx, frame_offset, prev_pm2idx, first_delta_frame,
                   pm2idx_to_scalehidebone, pm2idx_to_driverbone,
                   boneidx_to_default_scalehide_bonename, boneidx_to_scalehide_bones,
                   deleteme_bonenames, fcurves, loc_fcurves, sk_fcurves, resolved>>
    /\ schedule' = Append(schedule,
                          [frame_offset |-> frame_offset,
                           last_frame |-> fullanimlengths(animidx),
                           this_anim_start_frame |-> this_anim_start_frame',
                           next_anim_start_frame |-> next_anim_start_frame'])

\* lines 390-410: a bone of this animation, with or without keyframes
StartBone ==
    /\ pc = "bone_loop"
    /\ boneidx < Len(CurAnim.animation_data)
    /\ IF CurKeyframes = <<>>
       THEN /\ IF boneidx \in DOMAIN boneidx_to_default_scalehide_bonename
               THEN LET name == boneidx_to_default_scalehide_bonename[boneidx]
                    IN /\ animidx_to_scalehide_bones' =
                              AppendTo(animidx_to_scalehide_bones, animidx, <<name>>)
                       /\ fcurves' = KeyScale(fcurves, CurAct, name, this_anim_start_frame, 1)
               ELSE UNCHANGED <<animidx_to_scalehide_bones, fcurves>>
            /\ boneidx' = boneidx + 1
            /\ UNCHANGED <<pc, keyframeidx, prev_pm2idx, first_delta_frame>>
       ELSE /\ prev_pm2idx' = None
            /\ first_delta_frame' = None
            /\ keyframeidx' = 0
            /\ pc' = "keyframe_loop"
            /\ UNCHANGED <<boneidx, animidx_to_scalehide_bones, fcurves>>
    /\ UNCHANGED <<log, inp, animidx, frame_offset, next_anim_start_frame, this_anim_start_frame,
                   current_anim_endhide_frame, pm2idx_to_scalehidebone, pm2idx_to_meshobj,
                   pm2idx_to_driverbone, boneidx_to_default_scalehide_bonename,
                   default_scalehide_bonename_to_pm2mesh, boneidx_to_scalehide_bones,
                   deleteme_bonenames, shapekeys_already_keyframed, armbones, meshes,
                   loc_fcurves, sk_fcurves, resolved, schedule>>

(***************************************************************************)
(* import_stuff, lines 412-712: one keyframe of one bone                   *)
(***************************************************************************)
\* interp_type 2 ends at interp_delta
ResolveInterp_EndAtDelta(keyframe) ==
    IF keyframe.interp_type = 0 THEN <<Rat(keyframe.interp_start), Rat(keyframe.interp_start)>>
    ELSE IF keyframe.interp_type = 1 THEN <<Rat(0), Rat(1)>>
    ELSE IF keyframe.interp_type = 2
         THEN <<Rat(keyframe.interp_start), Rat(keyframe.interp_delta)>>
    ELSE IF keyframe.interp_type = -1 THEN <<Rat(1), Rat(0)>>
    ELSE <<Rat(0), Rat(0)>>

\* lines 425-442: <<interp_start, interp_end>> of a keyframe
ResolveInterp(keyframe) ==
    IF keyframe.interp_type = 0 THEN <<Rat(keyframe.interp_start), Rat(keyframe.interp_start)>>
    ELSE IF keyframe.interp_type = 1 THEN <<Rat(0), Rat(1)>>
    ELSE IF keyframe.interp_type = 2
         THEN <<Rat(keyframe.interp_start), Rat(keyframe.interp_start + keyframe.interp_delta)>>
    ELSE IF keyframe.interp_type = -1 THEN <<Rat(1), Rat(0)>>
    ELSE <<Rat(0), Rat(0)>>

\* the delta frame is kept only when the next start is strictly earlier
Repair_StrictlyEarlier(keyframe_start, next_keyframe_start, fdf, interp_start, interp_end) ==
    IF next_keyframe_start = None
    THEN [zerodiv |-> FALSE, interp_start |-> interp_start,
          keyframe_start |-> keyframe_start, first_delta_frame |-> fdf]
    ELSE IF fdf # None /\ next_keyframe_start = keyframe_start
    THEN [zerodiv |-> TRUE, interp_start |-> interp_start,
          keyframe_start |-> keyframe_start, first_delta_frame |-> fdf]
    ELSE LET interpscale_start ==
                 RatSub(Rat(1), RatNorm(next_keyframe_start - fdf,
                                        next_keyframe_start - keyframe_start))
             new_interp_start ==
                 IF fdf # None
                 THEN RatAdd(interp_start,
                             RatMul(interpscale_start, RatSub(interp_end, interp_start)))
                 ELSE interp_start
             new_start == IF fdf # None THEN fdf ELSE keyframe_start
         IN [zerodiv |-> FALSE, interp_start |-> new_interp_start,
             keyframe_start |-> new_start,
             first_delta_frame |-> IF next_keyframe_start < new_start
                                   THEN new_start + 1 ELSE None]

\* lines 444-458: keyframes in non-increasing frame order.  zerodiv: the
\* division of line 447 has a zero denominator (ZeroDivisionError)
Repair(keyframe_start, next_keyframe_start, fdf, interp_start, interp_end) ==
    IF next_keyframe_start = None
    THEN [zerodiv |-> FALSE, interp_start |-> interp_start,
          keyframe_start |-> keyframe_start, first_delta_frame |-> fdf]
    ELSE IF fdf # None /\ next_keyframe_start = keyframe_start
    THEN [zerodiv |-> TRUE, interp_start |-> interp_start,
          keyframe_start |-> keyframe_start, first_delta_frame |-> fdf]
    ELSE LET interpscale_start ==
                 RatSub(Rat(1), RatNorm(next_keyframe_start - fdf,
                                        next_keyframe_start - keyframe_start))
             new_interp_start ==
                 IF fdf # None
                 THEN RatAdd(interp_start,
                             RatMul(interpscale_start, RatSub(interp_end, interp_start)))
                 ELSE interp_start
             new_start == IF fdf # None THEN fdf ELSE keyframe_start
         IN [zerodiv |-> FALSE, interp_start |-> new_interp_start,
             keyframe_start |-> new_start,
             first_delta_frame |-> IF next_keyframe_start <= new_start
                                   THEN new_start + 1 ELSE None]

\* lines 462-500: the scalehide bone of a keyframe (retrieved or created)
ScalehideBoneOf(pm2idx, keyframe_start) ==
    LET known == pm2idx \in DOMAIN pm2idx_to_scalehidebone
        existing == known /\ pm2idx_to_scalehidebone[pm2idx] \in armbones[CurArm]
    IN [name |-> IF existing THEN pm2idx_to_scalehidebone[pm2idx]
                 ELSE IF pm2idx # None /\ pm2idx >= 0 THEN HideName(boneidx, pm2idx)
                 ELSE DeletemeName(animidx, boneidx, keyframe_start),
        repeated_bone |-> existing,
        created |-> ~existing,
        deleteme |-> ~existing /\ ~(pm2idx # None /\ pm2idx >= 0)]

\* a new bone is not hidden at frame 0
LongSamples_NoHideAtFrame0(slot, keyframe_start) ==
    LET is_last_animation == animidx + 1 = NumAnims
        has_default == boneidx \in DOMAIN boneidx_to_default_scalehide_bonename
    IN IF ~IsLong THEN <<>>
       ELSE (IF ~is_last_animation
             THEN << <<slot.name, current_anim_endhide_frame, 0>> >> ELSE <<>>)
            \o (IF has_default /\ slot.name # boneidx_to_default_scalehide_bonename[boneidx]
                THEN << <<boneidx_to_default_scalehide_bonename[boneidx],
                          this_anim_start_frame, 0>> >>
                ELSE <<>>)
            \o (IF keyframeidx = 0 /\ keyframe_start > 0
                THEN << <<slot.name, frame_offset, 1>> >> ELSE <<>>)

\* lines 506-539: the scale keyframes <<bone, frame, value>> that the 1LONG
\* modes insert before the keyframe's own ones, in the order of the code
LongSamples(slot, keyframe_start) ==
    LET is_last_animation == animidx + 1 = NumAnims
        has_default == boneidx \in DOMAIN boneidx_to_default_scalehide_bonename
    IN IF ~IsLong THEN <<>>
       ELSE (IF ~slot.repeated_bone THEN << <<slot.name, 0, 0>> >> ELSE <<>>)
            \o (IF ~is_last_animation
                THEN << <<slot.name, current_anim_endhide_frame, 0>> >> ELSE <<>>)
            \o (IF has_default /\ slot.name # boneidx_to_default_scalehide_bonename[boneidx]
                THEN << <<boneidx_to_default_scalehide_bonename[boneidx],
                          this_anim_start_frame, 0>> >>
                ELSE <<>>)
            \o (IF keyframeidx = 0 /\ keyframe_start > 0
                THEN << <<slot.name, frame_offset, 1>> >> ELSE <<>>)

\* the bone is hidden at the start of the next keyframe whatever that start is
ScaleSamples_AnyNextStart(slot, keyframe_start, next_keyframe_start, pm2idx, next_pm2idx, fdf) ==
    << <<slot.name, frame_offset + keyframe_start, 1>> >>
    \o (IF prev_pm2idx # pm2idx /\ keyframe_start > 0 /\ keyframeidx > 0
        THEN << <<slot.name, frame_offset + keyframe_start - 1, 0>> >> ELSE <<>>)
    \o (IF pm2idx # next_pm2idx /\ next_keyframe_start # None
        THEN << <<slot.name, frame_offset + next_keyframe_start, 0>> >> ELSE <<>>)
    \o (IF fdf # None THEN << <<slot.name, frame_offset + fdf, 0>> >> ELSE <<>>)

\* lines 541-570: the scale keyframes <<bone, frame, value>> of one keyframe
\* on its scalehide bone, in the order of the code
ScaleSamples(slot, keyframe_start, next_keyframe_start, pm2idx, next_pm2idx, fdf) ==
    << <<slot.name, frame_offset + keyframe_start, 1>> >>
    \o (IF prev_pm2idx # pm2idx /\ keyframe_start > 0 /\ keyframeidx > 0
        THEN << <<slot.name, frame_offset + keyframe_start - 1, 0>> >> ELSE <<>>)
    \o (IF pm2idx # next_pm2idx /\ next_keyframe_start # None
           /\ next_keyframe_start < Sentinel
        THEN << <<slot.name, frame_offset + next_keyframe_start, 0>> >> ELSE <<>>)
    \o (IF fdf # None THEN << <<slot.name, frame_offset + fdf, 0>> >> ELSE <<>>)

\* the scale keyframes are inserted one after the other
RECURSIVE InsertScale(_, _, _)
InsertScale(fcs, act, samples) ==
    IF samples = <<>> THEN fcs
    ELSE InsertScale(KeyScale(fcs, act, samples[1][1], samples[1][2], samples[1][3]),
                     act, Tail(samples))

\* lines 506-570: the scale keyframes of one keyframe on its scalehide bone
\* (and on the default scalehide bone of its joint)
ScaleKeyframes(fcs, slot, keyframe_start, next_keyframe_start, pm2idx, next_pm2idx, fdf) ==
    InsertScale(fcs, CurAct,
                LongSamples(slot, keyframe_start)
                    \o ScaleSamples(slot, keyframe_start, next_keyframe_start, pm2idx,
                                    next_pm2idx, fdf))

\* no extra keyframe at the start of the animation
ShapekeyKeyframes_NoExtra(fc, mesh, keyframe_start, next_keyframe_start, interp_start, interp_end) ==
    LET s1 == keyframe_insert(fc, frame_offset + keyframe_start, interp_start)
        s3 == IF next_keyframe_start # None /\ next_keyframe_start < Sentinel
              THEN keyframe_insert(s1, frame_offset + next_keyframe_start, interp_end) ELSE s1
    IN s3

\* lines 673-712: the shape key samples of one keyframe (not in DRIVER mode)
ShapekeyKeyframes(fc, mesh, keyframe_start, next_keyframe_start, interp_start, interp_end) ==
    LET s1 == keyframe_insert(fc, frame_offset + keyframe_start, interp_start)
        s2 == IF IsLong /\ mesh \notin shapekeys_already_keyframed
                 /\ frame_offset + keyframe_start > 0
              THEN keyframe_insert(s1, frame_offset, interp_start) ELSE s1
        s3 == IF next_keyframe_start # None /\ next_keyframe_start < Sentinel
              THEN keyframe_insert(s2, frame_offset + next_keyframe_start, interp_end) ELSE s2
    IN s3

\* the driver bone is keyed at the start of the next keyframe with interp_start
DriverKeyframes_StartValue(fc, keyframe_start, next_keyframe_start, interp_start, interp_end) ==
    LET d1 == keyframe_insert(fc, frame_offset + keyframe_start, interp_start)
        d2 == IF next_keyframe_start # None /\ next_keyframe_start < Sentinel
              THEN keyframe_insert(d1, frame_offset + next_keyframe_start, interp_start) ELSE d1
    IN d2

\* lines 646-671: the samples of one keyframe on the driver bone (DRIVER mode)
DriverKeyframes(fc, keyframe_start, next_keyframe_start, interp_start, interp_end) ==
    LET d1 == keyframe_insert(fc, frame_offset + keyframe_start, interp_start)
        d2 == IF next_keyframe_start # None /\ next_keyframe_start < Sentinel
              THEN keyframe_insert(d1, frame_offset + next_keyframe_start, interp_end) ELSE d1
    IN d2

\* only the keyframe_start 999 ends the loop
Break_At999Only(keyframe) == keyframe.keyframe_start = Sentinel

\* lines 420-421: the keyframe loop breaks at this keyframe
Break(keyframe) == keyframe.keyframe_start >= Sentinel

Keyframe ==
    /\ pc = "keyframe_loop"
    /\ keyframeidx < Len(CurKeyframes)
    /\ ~Break(CurKeyframes[keyframeidx + 1])
    /\ LET keyframe == CurKeyframes[keyframeidx + 1]
           has_next == keyframeidx + 2 <= Len(CurKeyframes)
           next_keyframe_start ==
               IF has_next THEN CurKeyframes[keyframeidx + 2].keyframe_start ELSE None
           pm2idx == keyframe.pm2
           next_pm2idx == CurKeyframes[keyframeidx + 2].pm2
           interp == ResolveInterp(keyframe)
           rep == Repair(keyframe.keyframe_start, next_keyframe_start, first_delta_frame,
                         interp[1], interp[2])
           slot == ScalehideBoneOf(pm2idx, rep.keyframe_start)
           known_mesh == pm2idx \in DOMAIN pm2idx_to_meshobj
           skipped == pm2idx = None \/ (~known_mesh /\ pm2idx < 0)
           unloadable == ~skipped /\ ~known_mesh /\ pm2idx \in inp.missing
           mesh == IF known_mesh THEN pm2idx_to_meshobj[pm2idx]
                   ELSE MeshName(IF inp.anim_method = "SEPARATE_ARMATURES"
                                 THEN animidx ELSE None, boneidx, pm2idx)
           has_shapekey == ~skipped /\ ~unloadable /\ pm2idx \in inp.animated
           driver == IF pm2idx \in DOMAIN pm2idx_to_driverbone
                     THEN pm2idx_to_driverbone[pm2idx] ELSE DriverName(boneidx, pm2idx)
           by_driver == has_shapekey /\ inp.anim_method = "DRIVER"
           by_shapekey == has_shapekey /\ inp.anim_method # "DRIVER"
       IN IF ~has_next \/ rep.zerodiv
          THEN \* next_keyframe["pm2"] of None (line 423), or the division of line 447
               /\ pc' = IF ~has_next THEN "TypeError" ELSE "ZeroDivisionError"
               /\ UNCHANGED <<keyframeidx, prev_pm2idx, first_delta_frame,
                              pm2idx_to_scalehidebone, pm2idx_to_meshobj,
                              pm2idx_to_driverbone, animidx_to_scalehide_bones,
                              boneidx_to_scalehide_bones, deleteme_bonenames,
                              shapekeys_already_keyframed, armbones, meshes, fcurves,
                              loc_fcurves, sk_fcurves, log>>
          ELSE \* open(pm2path) of a file that does not exist (line 587)
               /\ pc' = IF unloadable THEN "FileNotFoundError" ELSE pc
               /\ keyframeidx' = keyframeidx + 1
               /\ prev_pm2idx' = pm2idx
               /\ log' = Append(log,
                      [animidx |-> animidx, boneidx |-> boneidx, keyframeidx |-> keyframeidx,
                       frame_offset |-> frame_offset,
                       raw_start |-> keyframe.keyframe_start,
                       keyframe_start |-> rep.keyframe_start,
                       next_keyframe_start |-> next_keyframe_start,
                       prev_pm2idx |-> prev_pm2idx, pm2idx |-> pm2idx,
                       next_pm2idx |-> next_pm2idx,
                       pending |-> first_delta_frame,
                       first_delta_frame |-> rep.first_delta_frame,
                       interp |-> interp, interp_start |-> rep.interp_start,
                       slot |-> slot.name,
                       samples |-> ScaleSamples(slot, rep.keyframe_start,
                                                next_keyframe_start, pm2idx, next_pm2idx,
                                                rep.first_delta_frame)])
               /\ first_delta_frame' = rep.first_delta_frame
               /\ pm2idx_to_scalehidebone' =
                      IF slot.created /\ ~slot.deleteme
                      THEN Put(pm2idx_to_scalehidebone, pm2idx, slot.name)
                      ELSE pm2idx_to_scalehidebone
               /\ deleteme_bonenames' =
                      IF slot.deleteme THEN Append(deleteme_bonenames, slot.name)
                      ELSE deleteme_bonenames
               /\ animidx_to_scalehide_bones' =
                      AppendTo(animidx_to_scalehide_bones, animidx, <<slot.name>>)
               /\ boneidx_to_scalehide_bones' =
                      AppendTo(boneidx_to_scalehide_bones, boneidx, <<slot.name>>)
               /\ armbones' =
                      Put(armbones, CurArm,
                          armbones[CurArm] \cup {slot.name}
                              \cup (IF by_driver THEN {driver} ELSE {}))
               /\ fcurves' = ScaleKeyframes(fcurves, slot, rep.keyframe_start,
                                            next_keyframe_start, pm2idx, next_pm2idx,
                                            rep.first_delta_frame)
               /\ meshes' = IF skipped \/ unloadable THEN meshes ELSE meshes \cup {mesh}
               /\ pm2idx_to_meshobj' =
                      IF skipped \/ unloadable THEN pm2idx_to_meshobj
                      ELSE Put(pm2idx_to_meshobj, pm2idx, mesh)
               /\ pm2idx_to_driverbone' =
                      IF by_driver THEN Put(pm2idx_to_driverbone, pm2idx, driver)
                      ELSE pm2idx_to_driverbone
               /\ loc_fcurves' =
                      IF by_driver
                      THEN SetFC(loc_fcurves, CurAct, driver,
                                 DriverKeyframes(FC(loc_fcurves, CurAct, driver),
                                                 rep.keyframe_start, next_keyframe_start,
                                                 rep.interp_start, interp[2]))
                      ELSE loc_fcurves
               /\ sk_fcurves' =
                      IF by_shapekey
                      THEN Put(sk_fcurves, mesh,
                               ShapekeyKeyframes(Get(sk_fcurves, mesh, <<>>), mesh,
                                                 rep.keyframe_start, next_keyframe_start,
                                                 rep.interp_start, interp[2]))
                      ELSE sk_fcurves
               /\ shapekeys_already_keyframed' =
                      IF by_shapekey /\ IsLong /\ mesh \notin shapekeys_already_keyframed
                         /\ frame_offset + rep.keyframe_start > 0
                      THEN shapekeys_already_keyframed \cup {mesh}
                      ELSE shapekeys_already_keyframed
    /\ UNCHANGED <<inp, animidx, boneidx, frame_offset, next_anim_start_frame,
                   this_anim_start_frame, current_anim_endhide_frame,
                   boneidx_to_default_scalehide_bonename,
                   default_scalehide_bonename_to_pm2mesh, resolved, schedule>>

\* lines 412-421: the keyframe loop of a bone ends at the end of the list or
\* breaks at the first keyframe_start >= 999
EndBone ==
    /\ pc = "keyframe_loop"
    /\ \/ keyframeidx >= Len(CurKeyframes)
       \/ Break(CurKeyframes[keyframeidx + 1])
    /\ boneidx' = boneidx + 1
    /\ pc' = "bone_loop"
    /\ UNCHANGED <<log, inp, animidx, keyframeidx, frame_offset, next_anim_start_frame,
                   this_anim_start_frame, current_anim_endhide_frame, prev_pm2idx,
                   first_delta_frame, pm2idx_to_scalehidebone, pm2idx_to_meshobj,
                   pm2idx_to_driverbone, boneidx_to_default_scalehide_bonename,
                   default_scalehide_bonename_to_pm2mesh, animidx_to_scalehide_bones,
                   boneidx_to_scalehide_bones, deleteme_bonenames,
                   shapekeys_already_keyframed, armbones, meshes, fcurves, loc_fcurves,
                   sk_fcurves, resolved, schedule>>

(***************************************************************************)
(* Default-visibility resolution and cleanup (lines 820-897, 999-1118)     *)
(***************************************************************************)
calc_default_scalehide_fcurves(default_fcurve, overwriting_fcurves, anim_method) ==
    LET timeline == fcurve_to_timeline(default_fcurve)
        default_timeline ==
            IF anim_method \in {"1LONG", "1LONG_EVERY100"} /\ timeline # <<>>
               /\ timeline[1][1] # 0
            THEN << <<0, 0>> >> \o timeline ELSE timeline
        overwriting_timelines ==
            [i \in 1..Len(overwriting_fcurves) |-> fcurve_to_timeline(overwriting_fcurves[i])]
        overwriting_sum == sum_scalehide_timelines(overwriting_timelines)
        inverted_overwriting_sum == invert_scalehide_timeline(overwriting_sum)
        new_default_timeline ==
            sum_scalehide_timelines(<<default_timeline, inverted_overwriting_sum>>)
    IN timeline_into_fcurve(simplify_scalehide_timeline(new_default_timeline))

\* the scalehide bones of joint b whose F-Curves overwrite its default in
\* the action with curves action_fcurves
OverwritingNames(action_fcurves, b) ==
    SelectSeq(Dedupe(boneidx_to_scalehide_bones[b]),
              LAMBDA n : n # boneidx_to_default_scalehide_bonename[b]
                         /\ n \in DOMAIN action_fcurves)

RECURSIVE SetDefaultsFrom(_, _)
SetDefaultsFrom(action_fcurves, bones) ==
    IF bones = <<>> THEN action_fcurves
    ELSE LET b == Head(bones)
             name == boneidx_to_default_scalehide_bonename[b]
             over == OverwritingNames(action_fcurves, b)
         IN IF b \notin DOMAIN boneidx_to_scalehide_bones
            THEN SetDefaultsFrom(action_fcurves, Tail(bones))
            ELSE SetDefaultsFrom(
                     Put(action_fcurves, name,
                         calc_default_scalehide_fcurves(
                             Get(action_fcurves, name, <<>>),
                             [i \in 1..Len(over) |-> action_fcurves[over[i]]],
                             inp.anim_method)),
                     Tail(bones))

set_default_scalehide_bones_visibility(action_fcurves) ==
    SetDefaultsFrom(action_fcurves, SeqOfSet(DOMAIN boneidx_to_default_scalehide_bonename))

simplify_scalehide_fcurves(action_fcurves) ==
    [n \in DOMAIN action_fcurves |->
        timeline_into_fcurve(simplify_scalehide_timeline(fcurve_to_timeline(action_fcurves[n])))]

\* the default scalehide bones that are all 0 in one of the actions
UnusedDefaultBones_AnyAction(fcs, actions) ==
    {n \in DOMAIN default_scalehide_bonename_to_pm2mesh :
        \E act \in actions :
            n \in DOMAIN Get(fcs, act, EmptyMap) /\ fcurve_is_all0(fcs[act][n])}

\* lines 1032-1061: the default scalehide bones that are all 0 in every one
\* of the actions
UnusedDefaultBones(fcs, actions) ==
    IF actions = {} THEN {}
    ELSE {n \in DOMAIN default_scalehide_bonename_to_pm2mesh :
             \A act \in actions :
                 n \in DOMAIN Get(fcs, act, EmptyMap) /\ fcurve_is_all0(fcs[act][n])}

\* lines 1063-1070: the default scalehide bones whose F-Curves are removed
UnusedDatapaths(fcs, actions) ==
    {n \in DOMAIN default_scalehide_bonename_to_pm2mesh :
        /\ \E act \in actions : n \in DOMAIN Get(fcs, act, EmptyMap)
        /\ \A act \in actions :
               n \in DOMAIN Get(fcs, act, EmptyMap) => fcurve_is_all0(fcs[act][n])}

\* delete_unused_default_pm2meshes followed by delete_deleteme_bones, as
\* every caller runs them: the bones, meshes and F-Curves that are left
Cleanup(fcs, actions, arm) ==
    LET unused == UnusedDefaultBones(fcs, actions)
        gone == UnusedDatapaths(fcs, actions) \cup Range(deleteme_bonenames)
    IN [armbones |-> Put(armbones, arm, (armbones[arm] \ unused) \ Range(deleteme_bonenames)),
        meshes |-> meshes \ {default_scalehide_bonename_to_pm2mesh[n] : n \in unused},
        fcurves |-> [act \in DOMAIN fcs |->
                        IF act \in actions THEN Drop(fcs[act], gone) ELSE fcs[act]]]

\* lines 714-742: end of one animation
EndAnim ==
    /\ pc = "bone_loop"
    /\ boneidx >= Len(CurAnim.animation_data)
    /\ frame_offset' = IF IsLong THEN next_anim_start_frame ELSE frame_offset
    /\ IF inp.anim_method = "SEPARATE_ARMATURES" /\ HasAnimationData(CurAct)
       THEN LET act == CurAct
                before == Get(fcurves, act, EmptyMap)
                after == set_default_scalehide_bones_visibility(
                             simplify_scalehide_fcurves(before))
                fcs == Put(fcurves, act, after)
                clean == Cleanup(fcs, {act}, CurArm)
            IN /\ resolved' = Put(resolved, act, after)
               /\ fcurves' = clean.fcurves
               /\ armbones' = clean.armbones
               /\ meshes' = clean.meshes
       ELSE UNCHANGED <<resolved, fcurves, armbones, meshes>>
    /\ animidx' = animidx + 1
    /\ pc' = "anim_loop"
    /\ UNCHANGED <<log, schedule, inp, boneidx, keyframeidx, next_anim_start_frame, this_anim_start_frame,
                   current_anim_endhide_frame, prev_pm2idx, first_delta_frame,
                   pm2idx_to_scalehidebone, pm2idx_to_meshobj, pm2idx_to_driverbone,
                   boneidx_to_default_scalehide_bonename,
                   default_scalehide_bonename_to_pm2mesh, animidx_to_scalehide_bones,
                   boneidx_to_scalehide_bones, deleteme_bonenames,
                   shapekeys_already_keyframed, loc_fcurves, sk_fcurves>>

(***************************************************************************)
(* import_stuff, lines 744-815: after the last animation                   *)
(***************************************************************************)
has_scale_keyframe_at_frame(action_fcurves, name, frame) ==
    name \in DOMAIN action_fcurves /\ frame \in Frames(action_fcurves[name])

AllScalehideBones ==
    UNION {Range(animidx_to_scalehide_bones[a]) : a \in DOMAIN animidx_to_scalehide_bones}

\* the bones that animation a does not use are hidden from frame 1 on
HideNotThisAnim_FromFrame1(action_fcurves, a) ==
    LET this_anim == Range(Get(animidx_to_scalehide_bones, a, <<>>))
        not_this_anim == AllScalehideBones \ this_anim
        hidden == {n \in not_this_anim : ~has_scale_keyframe_at_frame(action_fcurves, n, 0)}
    IN [n \in DOMAIN action_fcurves \cup hidden |->
           IF n \in hidden
           THEN keyframe_insert(Get(action_fcurves, n, <<>>), 1, 0)
           ELSE action_fcurves[n]]

\* lines 757-773: in the action of animation a, the scalehide bones that
\* animation a does not use get scale 0 at frame 0 unless keyframed there
HideNotThisAnim(action_fcurves, a) ==
    LET this_anim == Range(Get(animidx_to_scalehide_bones, a, <<>>))
        not_this_anim == AllScalehideBones \ this_anim
        hidden == {n \in not_this_anim : ~has_scale_keyframe_at_frame(action_fcurves, n, 0)}
    IN [n \in DOMAIN action_fcurves \cup hidden |->
           IF n \in hidden
           THEN keyframe_insert(Get(action_fcurves, n, <<>>), 0, 0)
           ELSE action_fcurves[n]]

\* lines 775-783 (DRIVER), 794-802 (1LONG): simplify, then resolve the defaults
ResolveAction(action_fcurves) ==
    set_default_scalehide_bones_visibility(simplify_scalehide_fcurves(action_fcurves))

PostPass ==
    /\ pc = "anim_loop"
    /\ animidx >= NumAnims
    /\ LET driver_actions == {a + 1 : a \in 0..NumAnims - 1}
           after ==
               IF inp.anim_method = "DRIVER" /\ HasAnimationData(0)
               THEN [act \in driver_actions |->
                        ResolveAction(HideNotThisAnim(Get(fcurves, act, EmptyMap), act - 1))]
               ELSE IF IsLong /\ HasAnimationData(0)
               THEN Put(fcurves, 0, ResolveAction(Get(fcurves, 0, EmptyMap)))
               ELSE fcurves
           actions ==
               IF ~HasAnimationData(0) THEN {}
               ELSE IF inp.anim_method = "DRIVER" THEN driver_actions ELSE {0}
           clean == Cleanup(after, actions, 0)
       IN IF inp.anim_method = "SEPARATE_ARMATURES"
          THEN /\ armbones' = IF NumAnims > 0 THEN Drop(armbones, {0}) ELSE armbones
               /\ meshes' =
                      IF NumAnims > 0
                      THEN meshes \ {MeshName(None, b, inp.defaultbodyparts[b + 1]) :
                                        b \in DOMAIN boneidx_to_default_scalehide_bonename}
                      ELSE meshes
               /\ UNCHANGED <<fcurves, resolved>>
          ELSE /\ resolved' = after
               /\ fcurves' = clean.fcurves
               /\ armbones' = clean.armbones
               /\ meshes' = clean.meshes
    /\ pc' = "done"
    /\ UNCHANGED <<log, schedule, inp, animidx, boneidx, keyframeidx, frame_offset, next_anim_start_frame,
                   this_anim_start_frame, current_anim_endhide_frame, prev_pm2idx,
                   first_delta_frame, pm2idx_to_scalehidebone, pm2idx_to_meshobj,
                   pm2idx_to_driverbone, boneidx_to_default_scalehide_bonename,
                   default_scalehide_bonename_to_pm2mesh, animidx_to_scalehide_bones,
                   boneidx_to_scalehide_bones, deleteme_bonenames,
                   shapekeys_already_keyframed, loc_fcurves, sk_fcurves>>

(***************************************************************************)
(* Pm2Model.from_file (pm2model.py) over a byte stream, and the batch loop *)
(* of load_pm2 (import_pm2.py) around it                                   *)
(***************************************************************************)
VARIABLES
    batch,          \* the files of one import, each a sequence of bytes
    bpc,            \* position in load_pm2
    bidx,           \* index of the file being loaded
    imported,       \* indices of the files whose model was imported
    dpc,            \* position in from_file
    fpos,           \* read position in the file
    pm2type, numprimlists,
    x,              \* index of the primitive group being decoded
    command,        \* last VIF command read
    vu_memory,      \* the bytes unpacked for the current group
    vpos,           \* read position in vu_memory
    primlist,       \* the PrimList being filled
    primlists,      \* the PrimLists decoded so far
    dresult,        \* what from_file returned or raised
    origin          \* how each file of the batch was made

dvars == <<origin, batch, bpc, bidx, imported, dpc, fpos, pm2type, numprimlists, x, command,
           vu_memory, vpos, primlist, primlists, dresult>>

PM2TYPES == {18, 19, 50, 51}

PM2TYPES_ANIM == {19, 51}

PM2TYPES_SINT32 == {50, 51}

VIF_NOP == 0

VIF_STCYCL == 1

VIF_MSCNT == 23

VIF_UNPACK_V4_32 == 108

VIF_UNPACK_V4_16 == 109

\* b"PM2"
Magic == <<80, 77, 50>>

\* little-endian unsigned integer of the n bytes of b that follow offset off
RECURSIVE UInt(_, _, _)
UInt(b, off, n) == IF n = 0 THEN 0 ELSE b[off + 1] + 256 * UInt(b, off + 1, n - 1)

\* struct "<h": the signed value of two bytes
SInt16(b, off) ==
    LET u == UInt(b, off, 2) IN IF u >= 32768 THEN u - 65536 ELSE u

\* the n little-endian bytes of a value, two's complement when it is negative
RECURSIVE PackBytes(_, _)
PackBytes(u, n) == IF n = 0 THEN <<>> ELSE <<u % 256>> \o PackBytes(u \div 256, n - 1)

\* struct "<i": the four bytes of a signed value
PackSInt32(v) == PackBytes(v, 4)

\* file.read alone: a short read is handed on
read_unless_eof_Short(stream, pos, num) ==
    [readbytes |-> SubSeq(stream, pos + 1, Min2(pos + num, Len(stream))), eof |-> FALSE]

\* common.py, read_unless_eof: num bytes of the stream from pos, or EOFError
read_unless_eof(stream, pos, num) ==
    LET readbytes == SubSeq(stream, pos + 1, Min2(pos + num, Len(stream)))
    IN [readbytes |-> readbytes, eof |-> Len(readbytes) < num]

\* the 16-bit values are read as unsigned ones
WidenSInt16s_Unsigned(readbytes) ==
    Flatten([i \in 1..Len(readbytes) \div 2 |-> PackSInt32(UInt(readbytes, 2 * (i - 1), 2))])

\* read_sint16(file, num) followed by write_sint32(vu_memory, *sint16s)
WidenSInt16s(readbytes) ==
    Flatten([i \in 1..Len(readbytes) \div 2 |-> PackSInt32(SInt16(readbytes, 2 * (i - 1)))])

\* the error of a read: EOFError, or struct.error when unpack gets too few bytes
ReadError(r, num) ==
    IF r.eof THEN "EOFError" ELSE IF Len(r.readbytes) # num THEN "struct.error" ELSE "none"

CurFile == batch[bidx + 1]

\* the magic is checked, the pm2type is not
HeaderError_MagicOnly(header_bytes) ==
    IF SubSeq(header_bytes, 1, 3) # Magic THEN "ValueError" ELSE "none"

\* lines 169-172: the checks of the header's magic and pm2type
HeaderError(header_bytes) ==
    IF SubSeq(header_bytes, 1, 3) # Magic THEN "ValueError"
    ELSE IF header_bytes[4] \notin PM2TYPES THEN "ValueError"
    ELSE "none"

\* a command that is not known is passed over
VifKind_Lenient(cmd) ==
    IF cmd = VIF_UNPACK_V4_32 THEN "UNPACK_V4_32"
    ELSE IF cmd = VIF_UNPACK_V4_16 THEN "UNPACK_V4_16"
    ELSE "continue"

\* lines 183-196: what the VIF loop does with a command
VifKind(cmd) ==
    IF cmd \in {VIF_NOP, VIF_STCYCL, VIF_MSCNT} THEN "continue"
    ELSE IF cmd = VIF_UNPACK_V4_32 THEN "UNPACK_V4_32"
    ELSE IF cmd = VIF_UNPACK_V4_16 THEN "UNPACK_V4_16"
    ELSE "ValueError"

Raise(err) ==
    /\ dresult' = err
    /\ dpc' = "returned"

\* the read position stays where it was
AfterRead_Stay(pos, num) == pos

\* file.read(num) with num bytes at hand: the read position moves past them
AfterRead(pos, num) == pos + num

\* lines 161-173: the header
D_Header ==
    /\ bpc = "decoding"
    /\ dpc = "header"
    /\ LET r == read_unless_eof(CurFile, fpos, 16)
           err == ReadError(r, 16)
       IN IF err # "none"
          THEN Raise(err) /\ UNCHANGED <<fpos, pm2type, numprimlists>>
          ELSE /\ fpos' = AfterRead(fpos, 16)
               /\ IF HeaderError(r.readbytes) # "none"
                  THEN Raise(HeaderError(r.readbytes)) /\ UNCHANGED <<pm2type, numprimlists>>
                  ELSE /\ pm2type' = r.readbytes[4]
                       /\ numprimlists' = UInt(r.readbytes, 12, 4)
                       /\ dpc' = "primlists"
                       /\ UNCHANGED dresult
    /\ UNCHANGED <<origin, batch, bpc, bidx, imported, x, command, vu_memory, vpos, primlist, primlists>>

\* line 176 and line 213: the next primitive group, or the Pm2Model is returned
D_Group ==
    /\ bpc = "decoding"
    /\ dpc = "primlists"
    /\ IF x < numprimlists
       THEN /\ vu_memory' = <<>>
            /\ command' = None
            /\ dpc' = "vif"
            /\ UNCHANGED dresult
       ELSE /\ dresult' = "Model"
            /\ dpc' = "returned"
            /\ UNCHANGED <<vu_memory, command>>
    /\ UNCHANGED <<origin, batch, bpc, bidx, imported, fpos, pm2type, numprimlists, x, vpos,
                   primlist, primlists>>

\* lines 181-196: one VIF command of the group
D_Vif ==
    /\ bpc = "decoding"
    /\ dpc = "vif"
    /\ IF command = VIF_MSCNT
       THEN /\ vpos' = 0
            /\ dpc' = "primlist_header"
            /\ UNCHANGED <<fpos, command, vu_memory, dresult>>
       ELSE LET r == read_unless_eof(CurFile, fpos, 4)
                err == ReadError(r, 4)
                cmd == r.readbytes[4]
                num == r.readbytes[3]
                kind == VifKind(cmd)
                size == IF kind = "UNPACK_V4_32" THEN 4 * (num * 4) ELSE 2 * (num * 4)
                p == read_unless_eof(CurFile, fpos + 4, size)
                perr == ReadError(p, size)
            IN /\ vpos' = vpos
               /\ IF err # "none"
                  THEN Raise(err) /\ UNCHANGED <<fpos, command, vu_memory>>
                  ELSE /\ command' = cmd
                       /\ IF kind = "continue"
                          THEN /\ fpos' = AfterRead(fpos, 4)
                               /\ UNCHANGED <<vu_memory, dpc, dresult>>
                          ELSE IF kind \in {"UNPACK_V4_32", "UNPACK_V4_16"}
                          THEN IF perr # "none"
                               THEN /\ fpos' = AfterRead(AfterRead(fpos, 4), Len(p.readbytes))
                                    /\ Raise(perr)
                                    /\ UNCHANGED vu_memory
                               ELSE /\ fpos' = AfterRead(AfterRead(fpos, 4), size)
                                    /\ vu_memory' =
                                           vu_memory \o (IF kind = "UNPACK_V4_32"
                                                         THEN p.readbytes
                                                         ELSE WidenSInt16s(p.readbytes))
                                    /\ UNCHANGED <<dpc, dresult>>
                          ELSE /\ fpos' = AfterRead(fpos, 4)
                               /\ Raise("ValueError")
                               /\ UNCHANGED vu_memory
    /\ UNCHANGED <<origin, batch, bpc, bidx, imported, pm2type, numprimlists, x, primlist, primlists>>

\* lines 199-201 and _read_primlist_header: the 0x20-byte header of the group
D_PrimlistHeader ==
    /\ bpc = "decoding"
    /\ dpc = "primlist_header"
    /\ LET r == read_unless_eof(vu_memory, vpos, 32)
           err == ReadError(r, 32)
       IN IF err # "none"
          THEN Raise(err) /\ UNCHANGED <<vpos, primlist>>
          ELSE /\ vpos' = AfterRead(vpos, 32)
               /\ primlist' = [texture_offset |-> UInt(r.readbytes, 16, 2), prims |-> <<>>]
               /\ dpc' = "prims"
               /\ UNCHANGED dresult
    /\ UNCHANGED <<origin, batch, bpc, bidx, imported, fpos, pm2type, numprimlists, x, command,
                   vu_memory, primlists>>

\* lines 207-211, _read_prim_header and _read_prim: one Prim of the group
D_Prim ==
    /\ bpc = "decoding"
    /\ dpc = "prims"
    /\ LET r == read_unless_eof(vu_memory, vpos, 16)
           err == ReadError(r, 16)
           \* numverts_and_flag & 0x7FFF and & 0x8000 are in its two low bytes
           numverts_and_flag == UInt(r.readbytes, 0, 2)
           numverts == numverts_and_flag % 32768
           is_last_prim == numverts_and_flag \div 32768 = 1
           vertsize == 4 * (IF pm2type \in PM2TYPES_ANIM THEN 24 ELSE 16)
           avail == (Len(vu_memory) - (vpos + 16)) \div vertsize
           v == read_unless_eof(vu_memory, vpos + 16 + Min2(avail, numverts) * vertsize,
                                vertsize)
           verr == IF numverts <= avail THEN "none" ELSE ReadError(v, vertsize)
           prim == [numverts |-> numverts,
                    adjust_all_values |-> pm2type \in PM2TYPES_SINT32,
                    animated |-> pm2type \in PM2TYPES_ANIM]
       IN IF err # "none"
          THEN Raise(err) /\ UNCHANGED <<vpos, primlist, primlists, x>>
          ELSE IF verr # "none"
          THEN /\ vpos' = AfterRead(AfterRead(vpos, 16), avail * vertsize + Len(v.readbytes))
               /\ Raise(verr)
               /\ UNCHANGED <<primlist, primlists, x>>
          ELSE /\ vpos' = AfterRead(AfterRead(vpos, 16), numverts * vertsize)
               /\ IF is_last_prim
                  THEN /\ primlists' =
                              Append(primlists,
                                     [primlist EXCEPT !.prims = Append(@, prim)])
                       /\ x' = x + 1
                       /\ dpc' = "primlists"
                       /\ UNCHANGED primlist
                  ELSE /\ primlist' = [primlist EXCEPT !.prims = Append(@, prim)]
                       /\ UNCHANGED <<primlists, x, dpc>>
               /\ UNCHANGED dresult
    /\ UNCHANGED <<origin, batch, bpc, bidx, imported, fpos, pm2type, numprimlists, command,
                   vu_memory>>

(***************************************************************************)
(* load_pm2 (import_pm2.py lines 7-21): the files of one import, in order. *)
(* load_ghs_mappm2 and MapPm2Importer.import_mappm2 loop in the same way.  *)
(***************************************************************************)
\* lines 14-17: the next file is opened and handed to Pm2Model.from_file
B_Open ==
    /\ bpc = "files"
    /\ bidx < Len(batch)
    /\ bpc' = "decoding"
    /\ dpc' = "header"
    /\ fpos' = 0
    /\ pm2type' = None
    /\ numprimlists' = 0
    /\ x' = 0
    /\ command' = None
    /\ vu_memory' = <<>>
    /\ vpos' = 0
    /\ primlist' = [texture_offset |-> 0, prims |-> <<>>]
    /\ primlists' = <<>>
    /\ dresult' = "none"
    /\ UNCHANGED <<origin, batch, bidx, imported>>

\* lines 18-20: the Pm2Model that from_file returned is imported
B_Import ==
    /\ bpc = "decoding"
    /\ dpc = "returned"
    /\ dresult = "Model"
    /\ imported' = Append(imported, bidx)
    /\ bidx' = bidx + 1
    /\ bpc' = "files"
    /\ UNCHANGED <<origin, batch, dpc, fpos, pm2type, numprimlists, x, command, vu_memory,
                   vpos, primlist, primlists, dresult>>

\* the file that from_file failed on is passed over
B_Raise_Skip ==
    /\ bpc = "decoding"
    /\ dpc = "returned"
    /\ dresult # "Model"
    /\ bidx' = bidx + 1
    /\ bpc' = "files"
    /\ UNCHANGED <<origin, batch, imported, dpc, fpos, pm2type, numprimlists, x,
                   command, vu_memory, vpos, primlist, primlists, dresult>>

\* no handler around line 17: what from_file raised leaves load_pm2
B_Raise ==
    /\ bpc = "decoding"
    /\ dpc = "returned"
    /\ dresult # "Model"
    /\ bpc' = "raised"
    /\ UNCHANGED <<origin, batch, bidx, imported, dpc, fpos, pm2type, numprimlists, x,
                   command, vu_memory, vpos, primlist, primlists, dresult>>

\* line 21: after the last file
B_Finish ==
    /\ bpc = "files"
    /\ bidx >= Len(batch)
    /\ bpc' = "finished"
    /\ UNCHANGED <<origin, batch, bidx, imported, dpc, fpos, pm2type, numprimlists, x,
                   command, vu_memory, vpos, primlist, primlists, dresult>>

(***************************************************************************)
(* Inputs                                                                  *)
(***************************************************************************)
SentinelKeyframe ==
    [keyframe_start |-> Sentinel, pm2 |-> None, interp_type |-> 0, interp_start |-> 0,
     interp_delta |-> 0]

\* the keyframe lists of at most n keyframes over K, closed by the sentinel
KeyframeLists(K, n) ==
    UNION {{kfs \o <<SentinelKeyframe>> : kfs \in [1..m -> K]} : m \in 0..n}

\* an animation of a one-bone skeleton
Anims1(lens, mprs, lists) ==
    [anim_len : lens, mpr : mprs, animation_data : {<<>>} \cup {<<l>> : l \in lists \cup {<<>>}}]

\* the clip lists of at most n clips: the first over First, the others over Later
ClipLists(First, Later, n) ==
    UNION {{<<f>> \o r : f \in First, r \in [1..m -> Later]} : m \in 0..n - 1}

StartFrames == {0, 1, 10}

Pm2Ids == {5, 6}

PlainKeyframes ==
    [keyframe_start : StartFrames, pm2 : Pm2Ids \cup {None}, interp_type : {1},
     interp_start : {0}, interp_delta : {0}]

Inputs ==
    [anim_method : AnimMethods,
     defaultbodyparts : {<<None>>, <<5>>},
     anims : ClipLists(Anims1({2}, {<<1>>}, KeyframeLists(PlainKeyframes, MaxKeyframes)),
                       Anims1({2}, {<<1>>}, KeyframeLists(PlainKeyframes, 1)),
                       MaxClips),
     animated : {{5}},
     missing : {{}}]

(***************************************************************************)
(* Inputs of the animation scheduling: clips of a two-bone skeleton with   *)
(* their declared lengths, pose tracks and keyframes                       *)
(***************************************************************************)
MaxSchedClips == 2

SchedLens == {8, 10, 37, 100}

\* len(boneposedata["pos"]) of each bone the .mpr file has a pose track for
SchedMprs == {<<1>>, <<12, 9>>}

SchedKeyframes ==
    [keyframe_start : {3, 40}, pm2 : {5}, interp_type : {1}, interp_start : {0},
     interp_delta : {0}]

SchedAnims ==
    [anim_len : SchedLens, mpr : SchedMprs,
     animation_data : {<<>>} \cup {<<<<k, SentinelKeyframe>>, <<>>>> : k \in SchedKeyframes}]

SchedInputs ==
    [anim_method : AnimMethods,
     defaultbodyparts : {<<None, None>>},
     anims : ClipLists(SchedAnims, SchedAnims, MaxSchedClips),
     animated : {{5}},
     missing : {{}}]

(***************************************************************************)
(* Inputs of the decoder: .pm2 files built from their parts, whole or cut  *)
(* short                                                                   *)
(***************************************************************************)
MaxGroups == 2

MaxFiles == 3

Zeros(n) == [i \in 1..n |-> 0]

\* struct "<3s1B3I" (line 159)
Header(magic, type, n) == magic \o <<type>> \o Zeros(4) \o Zeros(4) \o PackBytes(n, 4)

\* struct "<HBB" (_read_vif_command)
VifCommand(cmd, num, immediate) == PackBytes(immediate, 2) \o <<num, cmd>>

\* an UNPACK_V4_32 of whole quadwords
Unpack32(data) == VifCommand(VIF_UNPACK_V4_32, Len(data) \div 16, 0) \o data

\* an UNPACK_V4_16 of signed 16-bit values, four to a quadword
Unpack16(sint16s) ==
    VifCommand(VIF_UNPACK_V4_16, Len(sint16s) \div 4, 0)
        \o Flatten([i \in 1..Len(sint16s) |-> PackBytes(sint16s[i] % 65536, 2)])

\* struct "4x4x4x4x1H2x4x4x4x" (_read_primlist_header)
PrimlistHeader(texture_offset) == Zeros(16) \o PackBytes(texture_offset, 2) \o Zeros(14)

\* struct "1I4x4x4x" (_read_prim_header)
PrimHeader(numverts, is_last) ==
    PackBytes(numverts + (IF is_last THEN 32768 ELSE 0), 4) \o Zeros(12)

\* the 16 or 24 values of one vertex (_read_prim)
Vertex(type) == [i \in 1..4 * (IF type \in PM2TYPES_ANIM THEN 24 ELSE 16) |-> i]

Mscnt == VifCommand(VIF_MSCNT, 0, 0)

GroupPlain == Unpack32(PrimlistHeader(3) \o PrimHeader(0, TRUE)) \o Mscnt

GroupShort ==
    VifCommand(VIF_NOP, 0, 0) \o VifCommand(VIF_STCYCL, 0, 1028)
        \o Unpack16(<<0, 0, 0, 0, 3, 0, 0, 0, -32768, 0, 0, 0>>) \o Mscnt

GroupVerts(type) ==
    Unpack32(PrimlistHeader(7))
        \o Unpack32(PrimHeader(1, FALSE) \o Vertex(type) \o PrimHeader(0, TRUE)) \o Mscnt

GoodGroups(type) == {GroupPlain, GroupShort, GroupVerts(type)}

\* groups with a VIF command the decoder does not know, first or after data
BadGroups ==
    {VifCommand(op, 0, 0) \o GroupPlain : op \in {2, 255}}
        \cup {Unpack32(PrimlistHeader(3) \o PrimHeader(0, TRUE)) \o VifCommand(op, 1, 0) \o Mscnt :
                 op \in {80, 110}}

\* groups whose transfers leave too little in VU memory: for the group
\* header, for the first Prim header, for the Prim header after a Prim that is
\* not the last, for the second vertex
ShortGroups(type) ==
    {Mscnt,
     Unpack32(PrimlistHeader(3)) \o Mscnt,
     Unpack32(PrimlistHeader(3) \o PrimHeader(0, FALSE)) \o Mscnt,
     Unpack32(PrimlistHeader(3) \o PrimHeader(2, TRUE) \o Vertex(type)) \o Mscnt}

GroupSeqs(G, n) == UNION {[1..m -> G] : m \in 0..n}

\* the first group of gs that is in G, 0 if none is
FirstIn(gs, G) ==
    LET found == {i \in 1..Len(gs) : gs[i] \in G}
    IN IF found = {} THEN 0 ELSE SetMin(found)

\* a file of the batch: its first t bytes, and how they were made: the
\* bytes that the header and the n groups it announces take, the first
\* group with an unknown VIF command and the first group with too little
\* data (0: none)
FileOf(magic, type, n, gs, t) ==
    LET full == Header(magic, type, n) \o Flatten(gs)
    IN [file |-> SubSeq(full, 1, t),
        origin |-> [needed |-> 16 + Len(Flatten(SubSeq(gs, 1, n))),
                    badgroup |-> FirstIn(SubSeq(gs, 1, n), BadGroups),
                    shortgroup |-> FirstIn(SubSeq(gs, 1, n), ShortGroups(type))]]

\* well-formed files, cut after any number of bytes
CutFiles ==
    UNION {UNION {{FileOf(Magic, type, Len(gs), gs, t) :
                      t \in 0..16 + Len(Flatten(gs))} :
                  gs \in GroupSeqs(GoodGroups(type), MaxGroups)} :
           type \in PM2TYPES}

\* files with any magic and pm2type
HeaderFiles ==
    {FileOf(magic, type, Len(gs), gs, 16 + Len(Flatten(gs))) :
        magic \in {Magic, <<80, 77, 51>>, <<112, 109, 50>>, <<0, 80, 77>>},
        type \in PM2TYPES \cup {0, 17, 20, 52, 255},
        gs \in GroupSeqs({GroupPlain}, 1)}

\* files whose groups may have unknown VIF commands
OpcodeFiles ==
    UNION {UNION {{FileOf(Magic, type, n, gs, 16 + Len(Flatten(gs))) : n \in 0..Len(gs)} :
                  gs \in GroupSeqs(GoodGroups(type) \cup BadGroups, MaxGroups)} :
           type \in {18, 51}}

\* files whose groups may have too little data
ShortFiles ==
    UNION {{FileOf(Magic, type, Len(gs), gs, 16 + Len(Flatten(gs))) :
               gs \in GroupSeqs(GoodGroups(type) \cup ShortGroups(type), MaxGroups)} :
           type \in {18, 19}}

GoodFile == FileOf(Magic, 18, 1, <<GroupPlain>>, 16 + Len(GroupPlain))

\* the files that batches of several files are made of
BatchFiles ==
    {GoodFile,
     FileOf(<<80, 77, 51>>, 18, 1, <<GroupPlain>>, 16 + Len(GroupPlain)),
     FileOf(Magic, 20, 1, <<GroupPlain>>, 16 + Len(GroupPlain)),
     FileOf(Magic, 18, 1, <<VifCommand(255, 0, 0) \o GroupPlain>>, 20 + Len(GroupPlain)),
     FileOf(Magic, 18, 1, <<GroupPlain>>, 40)}

Batches ==
    {<<f>> : f \in CutFiles \cup HeaderFiles \cup OpcodeFiles \cup ShortFiles}
        \cup UNION {[1..m -> BatchFiles] : m \in 2..MaxFiles}

(***************************************************************************)
(* The scalehide timeline functions on their own, applied to timelines and *)
(* to each other's results; those of the older importer                    *)
(* (io_scene_pm2/ghs/ghsimporter.py) work on "mypoints"                    *)
(***************************************************************************)
VARIABLES
    args,           \* the timelines the functions are called with
    trace           \* the calls made: function, argument, result

avars == <<args, trace>>

MaxFrame == 2

MaxTimelines == 2

MaxOps == 2

\* older importer, lines 765-797: every frame before the last keyframe is
\* evaluated
sum_scalehide_mypoints(mypoints_lists) ==
    LET nonempty == SelectSeq(mypoints_lists, LAMBDA l : l # <<>>)
    IN IF Len(nonempty) = 1 THEN nonempty[1]
       ELSE IF Len(nonempty) = 0 THEN <<>>
       ELSE LET last_keyframe ==
                    SetMax({0} \cup UNION {Frames(nonempty[i]) : i \in 1..Len(nonempty)})
            IN [k \in 1..last_keyframe |->
                   <<k - 1,
                     SetMax({CurrentVal(nonempty[i], k - 1) : i \in 1..Len(nonempty)})>>]

\* older importer, lines 818-821: "return mypoints  # TODO"
simplify_scalehide_mypoints(mypoints) == mypoints

\* the timelines an F-Curve can hold: frames in increasing order, one sample
\* per frame, values 0 and 1
Timelines ==
    UNION {{[i \in 1..Cardinality(F) |-> <<SeqOfSet(F)[i], v[i]>>] :
               v \in [1..Cardinality(F) -> {0, 1}]} :
           F \in SUBSET (0..MaxFrame)}

\* the argument of the next call of a function of one timeline
Operand == IF trace = <<>> THEN args[1] ELSE trace[Len(trace)].result

Call(op, arg, result) ==
    /\ Len(trace) < MaxOps
    /\ trace' = Append(trace, [op |-> op, arg |-> arg, result |-> result])
    /\ UNCHANGED args

A_Sum ==
    /\ args # <<>>
    /\ trace = <<>>
    /\ Call("sum_scalehide_timelines", args, sum_scalehide_timelines(args))

A_SumMypoints ==
    /\ args # <<>>
    /\ trace = <<>>
    /\ Call("sum_scalehide_mypoints", args, sum_scalehide_mypoints(args))

A_Invert ==
    /\ args # <<>>
    /\ Call("invert_scalehide_timeline", Operand, invert_scalehide_timeline(Operand))

A_Simplify ==
    /\ args # <<>>
    /\ Call("simplify_scalehide_timeline", Operand, simplify_scalehide_timeline(Operand))

A_SimplifyMypoints ==
    /\ args # <<>>
    /\ Call("simplify_scalehide_mypoints", Operand, simplify_scalehide_mypoints(Operand))

\* no timeline function is being called on its own
NoAlgebra ==
    /\ args = <<>>
    /\ trace = <<>>

(***************************************************************************)
(* Pm2Importer.import_mesh (pm2importer.py): the faces of the mesh made    *)
(* from the Prims of a Pm2Model, each Prim a triangle strip                *)
(***************************************************************************)
VARIABLES
    primlens,       \* pm2model.primlists: per PrimList, the len() of each of its Prims
    mpc,            \* position in import_mesh
    plidx, pridx,   \* the PrimList and the Prim being added
    tri_i,          \* i of the loop over the triangles of the Prim
    num_vertices,   \* len(vertices)
    face_offset,
    faces           \* the triangles appended, each with the Prim and the i it comes from

mvars == <<primlens, mpc, plidx, pridx, tri_i, num_vertices, face_offset, faces>>

MaxPrimlists == 2

MaxPrims == 2

MaxVerts == 5

\* every triangle is given the order of the odd-numbered ones
Tri_SameWinding(oi, i) == <<oi, oi + 1, oi + 2>>

\* lines 78-82: triangle i of a strip whose first vertex has index oi - i
Tri(oi, i) == IF i % 2 = 0 THEN <<oi + 1, oi, oi + 2>> ELSE <<oi, oi + 1, oi + 2>>

CurPrimLen == primlens[plidx + 1][pridx + 1]

\* lines 74-76: the next PrimList, the next Prim of it
M_NextPrim ==
    /\ mpc = "prims"
    /\ plidx < Len(primlens)
    /\ IF pridx < Len(primlens[plidx + 1])
       THEN /\ num_vertices' = num_vertices + CurPrimLen
            /\ tri_i' = 0
            /\ mpc' = "tris"
            /\ UNCHANGED <<plidx, pridx>>
       ELSE /\ plidx' = plidx + 1
            /\ pridx' = 0
            /\ UNCHANGED <<num_vertices, tri_i, mpc>>
    /\ UNCHANGED <<primlens, face_offset, faces>>

\* lines 77-83: one triangle of the strip
M_Tri ==
    /\ mpc = "tris"
    /\ tri_i < CurPrimLen - 2
    /\ faces' = Append(faces, [pl |-> plidx, pr |-> pridx, i |-> tri_i,
                               tri |-> Tri(face_offset + tri_i, tri_i)])
    /\ tri_i' = tri_i + 1
    /\ UNCHANGED <<primlens, mpc, plidx, pridx, num_vertices, face_offset>>

\* line 84: after the last triangle of the strip
M_EndPrim ==
    /\ mpc = "tris"
    /\ tri_i >= CurPrimLen - 2
    /\ face_offset' = face_offset + CurPrimLen
    /\ pridx' = pridx + 1
    /\ mpc' = "prims"
    /\ UNCHANGED <<primlens, plidx, tri_i, num_vertices, faces>>

\* line 85: me.from_pydata(vertices, [], faces)
M_FromPydata ==
    /\ mpc = "prims"
    /\ plidx >= Len(primlens)
    /\ mpc' = "done"
    /\ UNCHANGED <<primlens, plidx, pridx, tri_i, num_vertices, face_offset, faces>>

\* a PrimList has at least one Prim: from_file reads Prims until the one
\* flagged as the last
PrimLists ==
    UNION {[1..n -> UNION {[1..m -> 0..MaxVerts] : m \in 1..MaxPrims}] : n \in 0..MaxPrimlists}

InitMesh ==
    /\ mpc = "prims"
    /\ plidx = 0
    /\ pridx = 0
    /\ tri_i = 0
    /\ num_vertices = 0
    /\ face_offset = 0
    /\ faces = <<>>

\* no mesh is being made
NoMesh ==
    /\ primlens = <<>>
    /\ mpc = "idle"
    /\ plidx = 0
    /\ pridx = 0
    /\ tri_i = 0
    /\ num_vertices = 0
    /\ face_offset = 0
    /\ faces = <<>>

(***************************************************************************)
(* Initial states and specifications                                       *)
(***************************************************************************)
InitCompile ==
    /\ animidx = 0
    /\ boneidx = 0
    /\ keyframeidx = 0
    /\ frame_offset = 0
    /\ next_anim_start_frame = 0
    /\ this_anim_start_frame = 0
    /\ current_anim_endhide_frame = 0
    /\ prev_pm2idx = None
    /\ first_delta_frame = None
    /\ pm2idx_to_scalehidebone = EmptyMap
    /\ pm2idx_to_meshobj = EmptyMap
    /\ pm2idx_to_driverbone = EmptyMap
    /\ boneidx_to_default_scalehide_bonename = EmptyMap
    /\ default_scalehide_bonename_to_pm2mesh = EmptyMap
    /\ animidx_to_scalehide_bones = EmptyMap
    /\ boneidx_to_scalehide_bones = EmptyMap
    /\ deleteme_bonenames = <<>>
    /\ shapekeys_already_keyframed = {}
    /\ armbones = [a \in {0} |-> {}]
    /\ meshes = {}
    /\ fcurves = EmptyMap
    /\ loc_fcurves = EmptyMap
    /\ sk_fcurves = EmptyMap
    /\ resolved = EmptyMap
    /\ schedule = <<>>
    /\ log = <<>>

InitDecode ==
    /\ bidx = 0
    /\ imported = <<>>
    /\ dpc = "idle"
    /\ fpos = 0
    /\ pm2type = None
    /\ numprimlists = 0
    /\ x = 0
    /\ command = None
    /\ vu_memory = <<>>
    /\ vpos = 0
    /\ primlist = [texture_offset |-> 0, prims |-> <<>>]
    /\ primlists = <<>>
    /\ dresult = "none"

\* no file is being imported
NoBatch ==
    /\ origin = <<>>
    /\ batch = <<>>
    /\ bpc = "idle"
    /\ InitDecode

\* no .ghs file is being imported
NoCompile ==
    /\ inp = <<>>
    /\ pc = "idle"
    /\ InitCompile

vars == <<cvars, dvars, avars, mvars>>

\* GhsImporter.import_stuff on a one-bone skeleton
Init ==
    /\ inp \in Inputs
    /\ pc = "load_defaults"
    /\ InitCompile
    /\ NoBatch
    /\ NoAlgebra
    /\ NoMesh

Next ==
    \/ LoadDefaults /\ UNCHANGED <<dvars, avars, mvars>>
    \/ StartAnim /\ UNCHANGED <<dvars, avars, mvars>>
    \/ StartBone /\ UNCHANGED <<dvars, avars, mvars>>
    \/ Keyframe /\ UNCHANGED <<dvars, avars, mvars>>
    \/ EndBone /\ UNCHANGED <<dvars, avars, mvars>>
    \/ EndAnim /\ UNCHANGED <<dvars, avars, mvars>>
    \/ PostPass /\ UNCHANGED <<dvars, avars, mvars>>

Spec == Init /\ [][Next]_vars

\* GhsImporter.import_stuff on clips of many lengths
InitSched ==
    /\ inp \in SchedInputs
    /\ pc = "load_defaults"
    /\ InitCompile
    /\ NoBatch
    /\ NoAlgebra
    /\ NoMesh

SpecSched == InitSched /\ [][Next]_vars

\* load_pm2 on a batch of .pm2 files
InitBatch ==
    /\ \E fs \in Batches :
          /\ batch = [i \in 1..Len(fs) |-> fs[i].file]
          /\ origin = [i \in 1..Len(fs) |-> fs[i].origin]
    /\ bpc = "files"
    /\ InitDecode
    /\ NoCompile
    /\ NoAlgebra
    /\ NoMesh

NextBatch ==
    \/ B_Open /\ UNCHANGED <<cvars, avars, mvars>>
    \/ D_Header /\ UNCHANGED <<cvars, avars, mvars>>
    \/ D_Group /\ UNCHANGED <<cvars, avars, mvars>>
    \/ D_Vif /\ UNCHANGED <<cvars, avars, mvars>>
    \/ D_PrimlistHeader /\ UNCHANGED <<cvars, avars, mvars>>
    \/ D_Prim /\ UNCHANGED <<cvars, avars, mvars>>
    \/ B_Import /\ UNCHANGED <<cvars, avars, mvars>>
    \/ B_Raise /\ UNCHANGED <<cvars, avars, mvars>>
    \/ B_Finish /\ UNCHANGED <<cvars, avars, mvars>>

SpecBatch == InitBatch /\ [][NextBatch]_vars

(***************************************************************************)
(* Properties of the default-visibility resolution                         *)
(***************************************************************************)
\* a bone whose scale F-Curve has no keyframe keeps its rest scale 1
Visible(tl, f) == IF tl = <<>> THEN TRUE ELSE EvalAt(tl, f) = 1

LastFrame(action_fcurves) ==
    SetMax({0} \cup UNION {Frames(action_fcurves[n]) : n \in DOMAIN action_fcurves})

\* the joints whose default submodel was resolved against override slots
ResolvedJoints ==
    {b \in DOMAIN boneidx_to_default_scalehide_bonename : b \in DOMAIN boneidx_to_scalehide_bones}

\* C1: after the default-visibility resolution, at every frame of the
\* timeline the default submodel of a joint is visible if and only if no
\* override slot of that joint is visible
C1_DefaultIffNoOverride ==
    \A act \in DOMAIN resolved :
        \A b \in ResolvedJoints :
            LET d == boneidx_to_default_scalehide_bonename[b]
                over == OverwritingNames(resolved[act], b)
            IN \A f \in 0..LastFrame(resolved[act]) + 1 :
                   Visible(Get(resolved[act], d, <<>>), f)
                   <=> \A i \in 1..Len(over) : ~Visible(resolved[act][over[i]], f)

(***************************************************************************)
(* Properties of the keyframes of one joint                                *)
(***************************************************************************)
PlainKeyframe(start, pm2idx) ==
    [keyframe_start |-> start, pm2 |-> pm2idx, interp_type |-> 1, interp_start |-> 0,
     interp_delta |-> 0]

\* the only clip, of a joint without default submodel: keyframes at 0 and
\* 10 of the animated pm2 5, then the sentinel
C2_Input ==
    /\ inp.defaultbodyparts = <<None>>
    /\ inp.anims = <<[anim_len |-> 2, mpr |-> <<1>>,
                      animation_data |->
                          <<<<PlainKeyframe(0, 5), PlainKeyframe(10, 5), SentinelKeyframe>>>>]>>

\* the blend-weight curve of pm2 5 on bone 0: the F-Curve of its shape key,
\* in DRIVER mode the location F-Curve of its driver bone
BlendCurveOf5 ==
    IF inp.anim_method = "DRIVER"
    THEN FC(loc_fcurves, 1, DriverName(0, 5))
    ELSE Get(sk_fcurves,
             MeshName(IF inp.anim_method = "SEPARATE_ARMATURES" THEN 0 ELSE None, 0, 5), <<>>)

\* C2: the keyframes (0, pm2 5, type 1), (10, pm2 5, type 1), sentinel give
\* the blend-weight curve exactly the samples (0, 0.0) and (10, 1.0), and the
\* visibility timeline of pm2 5 simplifies to [(0, 1)]
C2_EndToEnd ==
    (C2_Input /\ pc = "done")
    => /\ BlendCurveOf5 = <<<<0, Rat(0)>>, <<10, Rat(1)>>>>
       /\ simplify_scalehide_timeline(
              FC(fcurves, IF IsLong THEN 0 ELSE 1, HideName(0, 5))) = <<<<0, 1>>>>

(***************************************************************************)
(* Properties of the animation scheduling                                  *)
(***************************************************************************)
\* C6: in 1LONG mode the first animation has frame offset 0, and each later
\* animation has the offset of the one before it, plus the full length of
\* the one before it, plus 1
C6_SequentialOffsets ==
    inp.anim_method = "1LONG"
    => \A k \in 1..Len(schedule) :
           /\ schedule[k].frame_offset =
                  IF k = 1 THEN 0
                  ELSE schedule[k - 1].frame_offset + schedule[k - 1].last_frame + 1
           /\ schedule[k].this_anim_start_frame = schedule[k].frame_offset

\* two animations of full length 10 and 8 were given the offsets 0 and 11
C6_Witness ==
    /\ inp.anim_method = "1LONG"
    /\ Len(schedule) = 2
    /\ schedule[1].last_frame = 10
    /\ schedule[2].last_frame = 8
    /\ schedule[1].frame_offset = 0
    /\ schedule[2].frame_offset = 11

\* n is the first multiple of 100 after frame
FirstMultipleAfter(n, frame) == n % 100 = 0 /\ n > frame /\ n - 100 <= frame

\* C7: in 1LONG_EVERY100 mode every animation starts on a multiple of 100,
\* and the animation after it starts on the first multiple of 100 after its
\* offset plus its full length
C7_PaddedOffsets ==
    inp.anim_method = "1LONG_EVERY100"
    => \A k \in 1..Len(schedule) :
           /\ schedule[k].frame_offset % 100 = 0
           /\ schedule[k].this_anim_start_frame = schedule[k].frame_offset
           /\ FirstMultipleAfter(schedule[k].next_anim_start_frame,
                                 schedule[k].frame_offset + schedule[k].last_frame)
           /\ k > 1 => schedule[k].frame_offset = schedule[k - 1].next_anim_start_frame

\* an animation with offset + full length = 37 is followed by one at 100,
\* and one with offset + full length = 200 by one at 300
C7_Witness ==
    /\ inp.anim_method = "1LONG_EVERY100"
    /\ Len(schedule) = 2
    /\ schedule[1].frame_offset + schedule[1].last_frame = 37
    /\ schedule[2].frame_offset = 100
    /\ schedule[2].last_frame = 100
    /\ schedule[2].next_anim_start_frame = 300

\* io_scene_pm2 (the older importer), lines 180-189: the last keyframe_start
\* below 999 of animation a, 0 if it has none
animlengths(a) ==
    LET anim == inp.anims[a + 1]
        starts == Flatten([b \in 1..Len(anim.animation_data) |->
                             [k \in 1..Len(anim.animation_data[b]) |->
                                 anim.animation_data[b][k].keyframe_start]])
        below(ks) == ks < Sentinel
    IN MaxOver(0, SelectSeq(starts, below))

\* io_scene_pm2 (the older importer), lines 255-266: the last_frame of
\* animation a that its next_anim_start_frame is computed from
last_frame(a) ==
    LET mpr == inp.anims[a + 1].mpr
    IN IF mpr = <<>> THEN 0 ELSE MaxOver(Max2(0, animlengths(a)), mpr)

\* the keyframe_start values below 999 of animation a
StartsBelowSentinel(a) ==
    LET anim == inp.anims[a + 1]
    IN {s \in UNION {{anim.animation_data[b][k].keyframe_start :
                         k \in 1..Len(anim.animation_data[b])} :
                     b \in 1..Len(anim.animation_data)} : s < 999}

\* max(anim_len, largest number of pose samples, largest keyframe_start below 999)
DeclaredPoseKeyframeMax(a) ==
    SetMax({inp.anims[a + 1].anim_len} \cup Range(inp.anims[a + 1].mpr)
               \cup StartsBelowSentinel(a))

\* C8 as stated: for every animation, the length that the next start frame
\* is computed from (fullanimlengths[animidx], and last_frame in the older
\* importer) is the largest of anim_len, the numbers of pose samples of its
\* bones and its keyframe_start values below 999
C8_AsStated ==
    \A k \in 1..Len(schedule) :
        /\ schedule[k].last_frame = DeclaredPoseKeyframeMax(k - 1)
        /\ last_frame(k - 1) = DeclaredPoseKeyframeMax(k - 1)

\* C8: for every animation, fullanimlengths[animidx] is the largest of
\* anim_len, the numbers of pose samples of its bones and its keyframe_start
\* values below 999; last_frame of the older importer is the largest of the
\* numbers of pose samples and the keyframe_start values below 999, and
\* leaves anim_len out
C8_ResolvedLength ==
    \A k \in 1..Len(schedule) :
        /\ schedule[k].last_frame = DeclaredPoseKeyframeMax(k - 1)
        /\ inp.anims[k].mpr # <<>>
               => last_frame(k - 1) = SetMax(Range(inp.anims[k].mpr) \cup StartsBelowSentinel(k - 1))

\* a first animation whose anim_len 100 is the largest of the three, and a
\* second one whose 12 pose samples are
C8_Witness ==
    /\ Len(schedule) = 2
    /\ inp.anims[1].anim_len = 100
    /\ schedule[1].last_frame = 100
    /\ last_frame(0) = 40
    /\ inp.anims[2].anim_len = 10
    /\ schedule[2].last_frame = 12
    /\ last_frame(1) = 12

(***************************************************************************)
(* Properties of the cleanup after the last animation                      *)
(***************************************************************************)
Separate == inp.anim_method = "SEPARATE_ARMATURES"

\* the armatures that got an action
Arms == IF Separate THEN DOMAIN resolved ELSE {0}

\* the actions of an armature: one per compiled clip, or the single long one
ActsOf(arm) == IF Separate THEN {arm} ELSE DOMAIN resolved

\* the scalehide bones of the submodels that the actions of arm key
SlotNames(arm) ==
    UNION {{n \in DOMAIN resolved[act] : n.kind = "hide"} : act \in ActsOf(arm)}

\* the resolved timeline of n has keyframes, all 0, in every action of arm
AllZero(n, arm) ==
    \A act \in ActsOf(arm) : n \in DOMAIN resolved[act] /\ Values(resolved[act][n]) = {0}

SomeVisible(n, arm) ==
    \E act \in ActsOf(arm) : n \in DOMAIN resolved[act] /\ 1 \in Values(resolved[act][n])

IsDefaultName(n) ==
    \E b \in DOMAIN boneidx_to_default_scalehide_bonename :
        boneidx_to_default_scalehide_bonename[b] = n

\* the mesh of the default submodel of slot n on arm
DefaultMesh(n, arm) == MeshName(IF Separate THEN arm - 1 ELSE None, n.b, n.p)

\* a submodel that is visible in some clip keeps its slot and its mesh
VisibleKept ==
    \A arm \in Arms : \A n \in SlotNames(arm) :
        SomeVisible(n, arm)
        => n \in armbones[arm] /\ (IsDefaultName(n) => DefaultMesh(n, arm) \in meshes)

\* no DELETEME bone and no F-Curve of one is left
NoDeleteme ==
    /\ \A arm \in DOMAIN armbones : \A n \in armbones[arm] : n.kind # "DELETEME"
    /\ \A act \in DOMAIN fcurves : \A n \in DOMAIN fcurves[act] : n.kind # "DELETEME"

ValidHeader(file) ==
    /\ Len(file) >= 16
    /\ SubSeq(file, 1, 3) = <<80, 77, 50>>
    /\ file[4] \in {18, 19, 50, 51}

\* from_file is at work on the current file, or has raised
Decoding == bpc \in {"decoding", "raised"} /\ dpc # "idle"

\* the file ends before a read that from_file needs: it is cut short, or one
\* of its groups unpacks less than its headers and vertices take
EndsEarly ==
    LET o == origin[bidx + 1]
    IN \/ Len(CurFile) < o.needed /\ o.badgroup = 0 /\ o.shortgroup = 0
       \/ /\ Len(CurFile) >= o.needed
          /\ o.shortgroup # 0
          /\ o.badgroup = 0 \/ o.shortgroup < o.badgroup

\* C3: when the 16-byte header is valid and the bytes end before a read of
\* fixed size is complete (VIF command, unpacked data, PrimList header, Prim
\* header, vertex), from_file raises EOFError and returns no Pm2Model
C3_TruncatedInput ==
    (Decoding /\ ValidHeader(CurFile) /\ EndsEarly)
    => /\ dresult \in {"none", "EOFError"}
       /\ dpc = "returned" => dresult = "EOFError"
       /\ bidx \notin Range(imported)

\* a file cut short after its first group was decoded: EOFError, and the
\* PrimList that was decoded is not returned
C3_Witness ==
    /\ Decoding
    /\ ValidHeader(CurFile)
    /\ Len(CurFile) < origin[bidx + 1].needed
    /\ dpc = "returned"
    /\ dresult = "EOFError"
    /\ Len(primlists) = 1
    /\ bpc = "raised"

C5_UnknownOpcode ==
    LET o == origin[bidx + 1]
    IN (Decoding /\ ValidHeader(CurFile) /\ Len(CurFile) >= o.needed /\ o.badgroup # 0
           /\ (o.shortgroup = 0 \/ o.badgroup < o.shortgroup))
       => /\ dresult \in {"none", "ValueError"}
          /\ dpc = "returned"
                => /\ dresult = "ValueError"
                   /\ command \notin {0, 1, 23, 108, 109}
                   /\ Len(primlists) = o.badgroup - 1
          /\ bidx \notin Range(imported)

\* the unknown command came after unpacked data in the second group, the
\* first group was decoded
C5_Witness ==
    /\ Decoding
    /\ ValidHeader(CurFile)
    /\ dpc = "returned"
    /\ dresult = "ValueError"
    /\ command = 110
    /\ vu_memory # <<>>
    /\ Len(primlists) = 1

\* file i of the batch is one that from_file decodes
Whole(i) ==
    /\ ValidHeader(batch[i])
    /\ Len(batch[i]) >= origin[i].needed
    /\ origin[i].badgroup = 0
    /\ origin[i].shortgroup = 0

\* C10 as stated: when from_file raises ValueError on one file of a batch,
\* the files after it are still imported
C10_AsStated ==
    (bpc = "raised" /\ dresult = "ValueError")
    => \A i \in bidx + 2..Len(batch) : Whole(i) => i - 1 \in Range(imported)

\* C10: what from_file raises on one file of a batch leaves the loop over
\* the files: the files before it are imported, that file and the files
\* after it are not
C10_BatchAborts ==
    /\ \A k \in 1..Len(imported) : imported[k] = k - 1
    /\ \A i \in 1..Len(imported) : Whole(i)
    /\ bpc \in {"decoding", "raised"} => Len(imported) = bidx
    /\ bpc = "raised" => dresult \in {"ValueError", "EOFError"} /\ ~Whole(bidx + 1)
    /\ bpc = "finished" => Len(imported) = Len(batch)

\* ValueError on the second of three files: the first is imported, the third
\* is a file that from_file decodes and is not imported
C10_Witness ==
    /\ bpc = "raised"
    /\ dresult = "ValueError"
    /\ Len(batch) = 3
    /\ bidx = 1
    /\ imported = <<0>>
    /\ Whole(3)

(***************************************************************************)
(* Keyframes whose .pm2 file is not in the pm2 directory                   *)
(***************************************************************************)
MissingKeyframes ==
    [keyframe_start : {0, 10}, pm2 : Pm2Ids, interp_type : {1}, interp_start : {0},
     interp_delta : {0}]

\* the file of pm2 6 does not exist
MissingInputs ==
    [anim_method : AnimMethods,
     defaultbodyparts : {<<None>>, <<5>>},
     anims : ClipLists(Anims1({2}, {<<1>>}, KeyframeLists(MissingKeyframes, MaxKeyframes)),
                       Anims1({2}, {<<1>>}, KeyframeLists(MissingKeyframes, 1)),
                       MaxClips),
     animated : {{5}},
     missing : {{6}}]

InitMissing ==
    /\ inp \in MissingInputs
    /\ pc = "load_defaults"
    /\ InitCompile
    /\ NoBatch
    /\ NoAlgebra
    /\ NoMesh

SpecMissing == InitMissing /\ [][Next]_vars

\* the compiled result has nothing for pm2 p: no scalehide or driver bone, no
\* scale F-Curve, no mesh, no shape key F-Curve
SlotAbsent(p) ==
    /\ \A arm \in DOMAIN armbones : \A n \in armbones[arm] : n.p # p
    /\ \A act \in DOMAIN fcurves : \A n \in DOMAIN fcurves[act] : n.p # p
    /\ \A act \in DOMAIN loc_fcurves : \A n \in DOMAIN loc_fcurves[act] : n.p # p
    /\ \A m \in meshes : m.p # p
    /\ \A m \in DOMAIN sk_fcurves : m.p # p

\* C11: a keyframe that references a pm2 whose file cannot be found does
\* not make the import fail: once the animations are started no
\* FileNotFoundError is raised, and the finished import has no slot for that
\* pm2
C11_MissingModelSkipped ==
    /\ (pc = "FileNotFoundError" => schedule = <<>>)
    /\ (pc = "done" => \A p \in inp.missing : SlotAbsent(p))

(***************************************************************************)
(* Properties of the timeline functions                                    *)
(***************************************************************************)
\* the timeline functions called on timelines
InitAlgebra ==
    /\ args \in UNION {[1..n -> Timelines] : n \in 1..MaxTimelines}
    /\ trace = <<>>
    /\ NoCompile
    /\ NoBatch
    /\ NoMesh

NextAlgebra ==
    \/ A_Sum /\ UNCHANGED <<cvars, dvars, mvars>>
    \/ A_SumMypoints /\ UNCHANGED <<cvars, dvars, mvars>>
    \/ A_Invert /\ UNCHANGED <<cvars, dvars, mvars>>
    \/ A_Simplify /\ UNCHANGED <<cvars, dvars, mvars>>
    \/ A_SimplifyMypoints /\ UNCHANGED <<cvars, dvars, mvars>>

SpecAlgebra == InitAlgebra /\ [][NextAlgebra]_vars

\* the calls of a function that simplifies a timeline
SimplifyCalls ==
    {k \in 1..Len(trace) :
        trace[k].op \in {"simplify_scalehide_timeline", "simplify_scalehide_mypoints"}}

\* the samples of t whose value differs from the sample right before them
\* in t, the first sample included
RunsOf(t) ==
    LET keep == {i \in 1..Len(t) : i = 1 \/ t[i][2] # t[i - 1][2]}
    IN [k \in 1..Cardinality(keep) |-> t[SeqOfSet(keep)[k]]]

NoAdjacentEqual(t) == \A i \in 1..Len(t) - 1 : t[i][2] # t[i + 1][2]

\* C12: simplifying a timeline keeps the first sample and drops every
\* sample whose value equals the value of the sample before it, so that no
\* two adjacent samples of the result have the same value, and simplifying
\* the result again changes nothing
C12_SimplifyCollapses ==
    \A k \in SimplifyCalls :
        /\ trace[k].result = RunsOf(trace[k].arg)
        /\ NoAdjacentEqual(trace[k].result)
        /\ (k > 1 /\ trace[k - 1].op = trace[k].op) => trace[k].result = trace[k].arg

\* the calls of invert_scalehide_timeline on the result of another of its calls
DoubleInverts ==
    {k \in 2..Len(trace) :
        /\ trace[k].op = "invert_scalehide_timeline"
        /\ trace[k - 1].op = "invert_scalehide_timeline"}

\* C13: inverting a timeline twice gives the frames of the timeline, in the
\* same order, each with the value the timeline has at it
C13_InvertTwice ==
    \A k \in DoubleInverts :
        LET t == trace[k - 1].arg
            back == trace[k].result
        IN /\ Len(back) = Len(t)
           /\ \A i \in 1..Len(t) : back[i][1] = t[i][1] /\ back[i][2] = t[i][2]

\* a timeline with both values was inverted twice
C13_Witness ==
    \E k \in DoubleInverts :
        /\ Values(trace[k - 1].arg) = {0, 1}
        /\ Values(trace[k - 1].result) = {0, 1}
        /\ trace[k - 1].result # trace[k - 1].arg

(***************************************************************************)
(* Properties of the triangulation                                         *)
(***************************************************************************)
\* Pm2Importer.import_mesh on the Prims of a decoded model
InitMeshes ==
    /\ primlens \in PrimLists
    /\ InitMesh
    /\ NoCompile
    /\ NoBatch
    /\ NoAlgebra

NextMesh ==
    \/ M_NextPrim /\ UNCHANGED <<cvars, dvars, avars>>
    \/ M_Tri /\ UNCHANGED <<cvars, dvars, avars>>
    \/ M_EndPrim /\ UNCHANGED <<cvars, dvars, avars>>
    \/ M_FromPydata /\ UNCHANGED <<cvars, dvars, avars>>

SpecMesh == InitMeshes /\ [][NextMesh]_vars

\* the index in the mesh of the first vertex of Prim pr of PrimList pl
RECURSIVE SumLens(_)
SumLens(lens) == IF lens = <<>> THEN 0 ELSE lens[1] + SumLens(Tail(lens))

FirstVertex(pl, pr) ==
    SumLens(Flatten(SubSeq(primlens, 1, pl))) + SumLens(SubSeq(primlens[pl + 1], 1, pr))

\* the triangles made from Prim pr of PrimList pl, in the order they were appended
FacesOf(pl, pr) == SelectSeq(faces, LAMBDA f : f.pl = pl /\ f.pr = pr)

\* the Prims whose triangles are all made
DonePrims ==
    {q \in UNION {{<<pl, pr>> : pr \in 0..Len(primlens[pl + 1]) - 1} : pl \in 0..Len(primlens) - 1} :
        \/ mpc = "done"
        \/ q[1] < plidx
        \/ q[1] = plidx /\ q[2] < pridx}

\* the triangle goes through a, a + 1, a + 2 in this order or in a rotation of it
Forward(tri, a) == tri \in {<<a, a + 1, a + 2>>, <<a + 1, a + 2, a>>, <<a + 2, a, a + 1>>}

\* C14: a Prim of n >= 3 vertices gives n - 2 triangles, triangle i made of
\* exactly the vertices i, i + 1 and i + 2 of that Prim, the odd-numbered
\* triangles in the reverse order of the even-numbered ones
C14_Triangulation ==
    \A q \in DonePrims :
        LET n == primlens[q[1] + 1][q[2] + 1]
            first == FirstVertex(q[1], q[2])
            fs == FacesOf(q[1], q[2])
        IN n >= 3 =>
              /\ Len(fs) = n - 2
              /\ \A k \in 1..Len(fs) :
                    /\ fs[k].i = k - 1
                    /\ Range(fs[k].tri) = {first + k - 1, first + k, first + k + 1}
                    /\ Forward(fs[k].tri, first + k - 1) <=> (k - 1) % 2 = 1

\* a Prim of 4 vertices that is not the first of the mesh gave 2 triangles
C14_Witness ==
    \E q \in DonePrims :
        /\ primlens[q[1] + 1][q[2] + 1] = 4
        /\ FirstVertex(q[1], q[2]) > 0
        /\ Len(FacesOf(q[1], q[2])) = 2

(***************************************************************************)
(* Properties of the interpolation types                                   *)
(***************************************************************************)
MaxInterpKeyframes == 2

\* keyframes of every interp_type, known or not
InterpKeyframes ==
    [keyframe_start : {0, 5, 9}, pm2 : {5}, interp_type : {0, 1, 2, -1, -2, 3},
     interp_start : {0, 2}, interp_delta : {3}]

Increasing(kfs) ==
    \A i \in 1..Len(kfs) - 1 : kfs[i].keyframe_start < kfs[i + 1].keyframe_start

\* keyframe lists in increasing frame order, closed by the sentinel
InterpLists ==
    {l \in KeyframeLists(InterpKeyframes, MaxInterpKeyframes) : Increasing(l)}

InterpInputs ==
    [anim_method : AnimMethods,
     defaultbodyparts : {<<None>>},
     anims : {<<[anim_len |-> 2, mpr |-> <<1>>, animation_data |-> <<l>>]>> :
                 l \in InterpLists},
     animated : {{5}},
     missing : {{}}]

InitInterp ==
    /\ inp \in InterpInputs
    /\ pc = "load_defaults"
    /\ InitCompile
    /\ NoBatch
    /\ NoAlgebra
    /\ NoMesh

SpecInterp == InitInterp /\ [][Next]_vars

\* the keyframe of the .ghs data that a record of the log is about
KeyframeOf(r) == inp.anims[r.animidx + 1].animation_data[r.boneidx + 1][r.keyframeidx + 1]

\* the keyframes of a list before its first keyframe_start >= 999
BeforeSentinel(kfs) ==
    {i \in 1..Len(kfs) : \A j \in 1..i : kfs[j].keyframe_start < Sentinel}

\* every keyframe before the sentinel of every bone of every animation has
\* its record in the log
AllProcessed ==
    \A a \in 1..NumAnims :
        \A b \in 1..Len(inp.anims[a].animation_data) :
            \A i \in BeforeSentinel(inp.anims[a].animation_data[b]) :
                \E k \in 1..Len(log) :
                    /\ log[k].animidx = a - 1
                    /\ log[k].boneidx = b - 1
                    /\ log[k].keyframeidx = i - 1

\* C15: interp_type 0 gives (interp_start, interp_start), 1 gives (0, 1), 2
\* gives (interp_start, interp_start + interp_delta), -1 gives (1, 0), any
\* other type gives (0, 0); a keyframe of unknown type raises nothing and the
\* keyframes after it are processed
C15_InterpResolution ==
    /\ \A k \in 1..Len(log) :
          LET kf == KeyframeOf(log[k])
              t == kf.interp_type
          IN /\ t = 0 => log[k].interp = <<Rat(kf.interp_start), Rat(kf.interp_start)>>
             /\ t = 1 => log[k].interp = <<Rat(0), Rat(1)>>
             /\ t = 2 => log[k].interp =
                            <<Rat(kf.interp_start), Rat(kf.interp_start + kf.interp_delta)>>
             /\ t = -1 => log[k].interp = <<Rat(1), Rat(0)>>
             /\ t \notin {0, 1, 2, -1} => log[k].interp = <<Rat(0), Rat(0)>>
    /\ pc \in {"load_defaults", "anim_loop", "bone_loop", "keyframe_loop", "done"}
    /\ pc = "done" => AllProcessed

\* the import is done after a keyframe of unknown type and a later keyframe
\* of type 2 were processed
C15_Witness ==
    /\ pc = "done"
    /\ \E k \in 1..Len(log) :
          /\ KeyframeOf(log[k]).interp_type = -2
          /\ \E j \in k + 1..Len(log) :
                /\ KeyframeOf(log[j]).interp_type = 2
                /\ KeyframeOf(log[j]).interp_start = 2

(***************************************************************************)
(* Properties of the keyframes in non-increasing frame order               *)
(***************************************************************************)
MaxRepairKeyframes == 3

\* keyframes in any frame order
RepairKeyframes ==
    [keyframe_start : {0, 2, 5}, pm2 : Pm2Ids, interp_type : {1, -1}, interp_start : {0},
     interp_delta : {0}]

RepairInputs ==
    [anim_method : AnimMethods,
     defaultbodyparts : {<<None>>},
     anims : {<<[anim_len |-> 2, mpr |-> <<1>>, animation_data |-> <<l>>]>> :
                 l \in KeyframeLists(RepairKeyframes, MaxRepairKeyframes)},
     animated : {{5}},
     missing : {{}}]

InitRepair ==
    /\ inp \in RepairInputs
    /\ pc = "load_defaults"
    /\ InitCompile
    /\ NoBatch
    /\ NoAlgebra
    /\ NoMesh

SpecRepair == InitRepair /\ [][Next]_vars

\* the frame at which the interval of a processed keyframe ends: the start of
\* the next keyframe, or the delta frame when that start is not later
IntervalEnd(r) ==
    IF r.first_delta_frame # None THEN r.first_delta_frame ELSE r.next_keyframe_start

\* C16: whatever the order of the keyframe starts, the rescaling of the
\* repair is defined (its denominator next_start - start is not zero) and
\* every keyframe is processed with an interval of positive length
C16_RepairDefined ==
    /\ pc # "ZeroDivisionError"
    /\ \A k \in 1..Len(log) :
          /\ log[k].pending # None => log[k].next_keyframe_start # log[k].raw_start
          /\ IntervalEnd(log[k]) > log[k].keyframe_start

\* the interp_start of a keyframe relocated from c to d, with next start n
Rescaled(a, b, c, d, n) ==
    RatAdd(a, RatMul(RatSub(Rat(1), RatNorm(n - d, n - c)), RatSub(b, a)))

MaxVisibleKeyframes == 2

MaxVisibleClips == 2

\* clips of one joint without default submodel: keyframes in any frame
\* order, with or without a submodel, in the first clip and in the later ones
VisibleInputs ==
    [anim_method : AnimMethods,
     defaultbodyparts : {<<None>>},
     anims : ClipLists(Anims1({2}, {<<1>>},
                              KeyframeLists(PlainKeyframes, MaxVisibleKeyframes)),
                       Anims1({2}, {<<1>>},
                              KeyframeLists([keyframe_start : {0, 1}, pm2 : {5, None},
                                             interp_type : {1}, interp_start : {0},
                                             interp_delta : {0}], 1)),
                       MaxVisibleClips),
     animated : {{5}},
     missing : {{}}]

InitVisible ==
    /\ inp \in VisibleInputs
    /\ pc = "load_defaults"
    /\ InitCompile
    /\ NoBatch
    /\ NoAlgebra
    /\ NoMesh

SpecVisible == InitVisible /\ [][Next]_vars

\* the keyframe list of the joint of a processed keyframe
KeyframesOf(r) == inp.anims[r.animidx + 1].animation_data[r.boneidx + 1]

\* the <<frame, value>> samples that the keyframe of record r is to write
VisibilitySamples(r) ==
    LET kfs == KeyframesOf(r)
        this == kfs[r.keyframeidx + 1]
        next == kfs[r.keyframeidx + 2]
        s == r.keyframe_start
        fo == r.frame_offset
    IN {<<fo + s, 1>>}
       \cup (IF r.keyframeidx > 0 /\ kfs[r.keyframeidx].pm2 # this.pm2 /\ s > 0
             THEN {<<fo + s - 1, 0>>} ELSE {})
       \cup (IF next.pm2 # this.pm2 /\ next.keyframe_start < 999
             THEN {<<fo + next.keyframe_start, 0>>} ELSE {})
       \cup (IF next.keyframe_start <= s THEN {<<fo + s + 1, 0>>} ELSE {})

\* the value last written at frame f by the samples
RECURSIVE LastWritten(_, _)
LastWritten(samples, f) ==
    IF samples[Len(samples)][2] = f THEN samples[Len(samples)][3]
    ELSE LastWritten(SubSeq(samples, 1, Len(samples) - 1), f)

\* the keyframe of the last record was processed in the step before
JustProcessed ==
    /\ pc = "keyframe_loop"
    /\ log # <<>>
    /\ log[Len(log)].animidx = animidx
    /\ log[Len(log)].boneidx = boneidx
    /\ log[Len(log)].keyframeidx = keyframeidx - 1

\* C18: a processed keyframe with start s writes on its slot exactly the
\* samples 1 at s, 0 at s - 1 if the previous keyframe has another submodel id
\* and s > 0, 0 at the start of the next keyframe if that one has another id
\* and starts before 999, and 0 at the delta frame computed for the keyframe,
\* all shifted by the frame offset of the clip; the curve of the slot then
\* holds them, a later sample replacing an earlier one at the same frame
C18_VisibilitySamples ==
    /\ \A k \in 1..Len(log) :
          /\ {<<smp[2], smp[3]>> : smp \in Range(log[k].samples)} = VisibilitySamples(log[k])
          /\ \A smp \in Range(log[k].samples) : smp[1] = log[k].slot
    /\ JustProcessed =>
          LET r == log[Len(log)]
          IN \A smp \in Range(r.samples) :
                <<smp[2], LastWritten(r.samples, smp[2])>> \in Range(FC(fcurves, CurAct, r.slot))

\* a keyframe that writes the sample of the next keyframe and of its delta
\* frame, then the relocated keyframe that hides its slot one frame earlier,
\* and last a keyframe of a clip with a frame offset
C18_Witness ==
    /\ JustProcessed
    /\ log[Len(log)].frame_offset > 0
    /\ \E k \in 2..Len(log) :
          LET r == log[k]
              q == log[k - 1]
          IN /\ q.keyframeidx = 0 /\ r.keyframeidx = 1
             /\ q.first_delta_frame # None
             /\ Len(q.samples) = 3
             /\ r.pending # None
             /\ Len(r.samples) = 2

(***************************************************************************)
(* Properties of the end of the keyframe traversal                         *)
(***************************************************************************)
MaxBeforeStop == 2

MaxAfterStop == 2

\* the keyframes before the first keyframe_start >= 999
BeforeStopKeyframes ==
    [keyframe_start : {0, 10}, pm2 : {5, None}, interp_type : {1}, interp_start : {0},
     interp_delta : {0}]

\* the first keyframe with keyframe_start >= 999
StopKeyframes ==
    [keyframe_start : {Sentinel, Sentinel + 1}, pm2 : {None, 7}, interp_type : {1},
     interp_start : {0}, interp_delta : {0}]

\* the keyframes after it, at frames and with a submodel of their own
AfterStopKeyframes ==
    [keyframe_start : {3}, pm2 : {5, 7, None}, interp_type : {1}, interp_start : {0},
     interp_delta : {0}]

\* the lists of at most n keyframes over K
ListsOf(K, n) == UNION {[1..m -> K] : m \in 0..n}

StopInputs ==
    [anim_method : AnimMethods,
     defaultbodyparts : {<<None>>},
     anims : {<<[anim_len |-> 2, mpr |-> <<1>>,
                 animation_data |-> <<before \o <<stop>> \o after \o <<SentinelKeyframe>> >>]>> :
                 before \in ListsOf(BeforeStopKeyframes, MaxBeforeStop),
                 stop \in StopKeyframes,
                 after \in ListsOf(AfterStopKeyframes, MaxAfterStop)},
     animated : {{5, 7}},
     missing : {{}}]

InitStop ==
    /\ inp \in StopInputs
    /\ pc = "load_defaults"
    /\ InitCompile
    /\ NoBatch
    /\ NoAlgebra
    /\ NoMesh

SpecStop == InitStop /\ [][Next]_vars

\* the position in the list of the first keyframe with keyframe_start >= 999
FirstStop(kfs) ==
    CHOOSE i \in 1..Len(kfs) :
        /\ kfs[i].keyframe_start >= 999
        /\ \A j \in 1..(i - 1) : kfs[j].keyframe_start < 999

\* the bones of all armatures
AllBones == UNION {armbones[arm] : arm \in DOMAIN armbones}

\* the frames at which the keyframes of the records write a sample
FramesOf(records) ==
    UNION {{r.frame_offset + r.keyframe_start, r.frame_offset + r.next_keyframe_start}
              \cup {smp[2] : smp \in Range(r.samples)} : r \in records}

\* C19: the traversal of the keyframes of a joint stops at the first keyframe
\* with keyframe_start >= 999: that keyframe and those after it are not
\* processed, get no scalehide bone, mesh or driver bone, and no scale, shape
\* key or driver sample is at a frame other than those of the keyframes
\* before it (and frame 0, keyed by the animation method)
C19_StopAtSentinel ==
    /\ \A k \in 1..Len(log) : log[k].keyframeidx + 1 < FirstStop(KeyframesOf(log[k]))
    /\ \A a \in 1..Len(inp.anims) : \A b \in 1..Len(inp.anims[a].animation_data) :
          LET kfs == inp.anims[a].animation_data[b]
              stop == FirstStop(kfs)
              before == {kfs[i].pm2 : i \in 1..(stop - 1)}
          IN \A i \in stop..Len(kfs) :
                /\ \A n \in AllBones : n.kind = "DELETEME" => n.k # kfs[i].keyframe_start
                /\ kfs[i].pm2 \notin before =>
                      /\ \A n \in AllBones : n.p # kfs[i].pm2
                      /\ \A m \in meshes : m.p # kfs[i].pm2
                      /\ kfs[i].pm2 \notin DOMAIN pm2idx_to_scalehidebone
                      /\ kfs[i].pm2 \notin DOMAIN pm2idx_to_meshobj
                      /\ kfs[i].pm2 \notin DOMAIN pm2idx_to_driverbone
    /\ \A act \in DOMAIN fcurves : \A n \in DOMAIN fcurves[act] :
          Frames(fcurves[act][n]) \subseteq
              {0} \cup FramesOf({r \in Range(log) : r.slot = n})
    /\ \A act \in DOMAIN loc_fcurves : \A n \in DOMAIN loc_fcurves[act] :
          Frames(loc_fcurves[act][n]) \subseteq
              {0} \cup FramesOf({r \in Range(log) : r.pm2idx = n.p})
    /\ \A m \in DOMAIN sk_fcurves :
          Frames(sk_fcurves[m]) \subseteq {0} \cup FramesOf({r \in Range(log) : r.pm2idx = m.p})

\* the import is over: keyframes before a keyframe_start 1000 with a submodel
\* were processed, and keyframes with keyframe_start < 999 come after it
C19_Witness ==
    /\ pc = "done"
    /\ Len(log) = 2
    /\ LET kfs == inp.anims[1].animation_data[1]
       IN /\ kfs[3].keyframe_start = 1000 /\ kfs[3].pm2 = 7
          /\ Len(kfs) = 6
          /\ kfs[4].pm2 = 7 /\ kfs[5].pm2 = None
    /\ DOMAIN sk_fcurves # {}

\* the calls of the functions that sum timelines, on two or more non-empty ones
SumCalls ==
    {k \in 1..Len(trace) :
        /\ trace[k].op \in {"sum_scalehide_timelines", "sum_scalehide_mypoints"}
        /\ Len(SelectSeq(trace[k].arg, LAMBDA t : t # <<>>)) >= 2}

\* C20: the sum of two or more non-empty timelines has one sample per frame
\* at which a timeline has one and one at frame 0, no other, in increasing
\* frame order; its value at a frame is the greatest of the values that the
\* timelines hold there, a timeline holding its first value before its first
\* sample
C20_Union ==
    \A k \in SumCalls :
        LET inputs == SelectSeq(trace[k].arg, LAMBDA t : t # <<>>)
            result == trace[k].result
        IN /\ \A i \in 1..(Len(result) - 1) : result[i][1] < result[i + 1][1]
           /\ Frames(result) = {0} \cup UNION {Frames(inputs[i]) : i \in 1..Len(inputs)}
           /\ \A i \in 1..Len(result) :
                 result[i][2] =
                     SetMax({EvalAt(inputs[j], result[i][1]) : j \in 1..Len(inputs)})

(***************************************************************************)
(* Properties of the clips laid out one after the other                    *)
(***************************************************************************)
MaxConcatClips == 3

MaxConcatKeyframes == 2

ConcatKeyframes ==
    [keyframe_start : {0, 3}, pm2 : Pm2Ids, interp_type : {1}, interp_start : {0},
     interp_delta : {0}]

\* up to MaxConcatClips clips of one joint, with or without a default submodel
ConcatInputs ==
    [anim_method : AnimMethods,
     defaultbodyparts : {<<None>>, <<5>>},
     anims : ClipLists(Anims1({2}, {<<1>>},
                              KeyframeLists(ConcatKeyframes, MaxConcatKeyframes)),
                       Anims1({2}, {<<1>>}, KeyframeLists(ConcatKeyframes, 1)),
                       MaxConcatClips),
     animated : {{5}},
     missing : {{}}]

InitConcat ==
    /\ inp \in ConcatInputs
    /\ pc = "load_defaults"
    /\ InitCompile
    /\ NoBatch
    /\ NoAlgebra
    /\ NoMesh

SpecConcat == InitConcat /\ [][Next]_vars

\* the submodel ids that the keyframes of clip k (1, 2, ...) reference
UsedIn(k) ==
    LET data == inp.anims[k].animation_data
    IN UNION {{data[b][i].pm2 : i \in BeforeSentinel(data[b])} : b \in 1..Len(data)}

\* the last frame of clip k in the one long action
ClipEnd(k) ==
    IF k < Len(schedule) THEN schedule[k].next_anim_start_frame - 1
    ELSE schedule[k].frame_offset + schedule[k].last_frame

\* the scalehide bones of the submodels that are no default submodel
OverrideSlots(action_fcurves) ==
    {n \in DOMAIN action_fcurves :
        /\ n.kind = "hide"
        /\ \A b \in DOMAIN boneidx_to_default_scalehide_bonename :
              boneidx_to_default_scalehide_bonename[b] # n}

\* C21: in the 1LONG methods a scalehide bone of a submodel is hidden during
\* the clips that do not use it: it has scale 0 at frame 0 when its first
\* clip is a later one, it has a keyframe at the start of the clip that
\* follows a clip using it, and its scale is 0 at every frame of a clip whose
\* keyframes do not reference its submodel
C21_HiddenWhenUnused ==
    IsLong =>
        LET action_fcurves == Get(fcurves, 0, EmptyMap)
        IN /\ \A k \in 1..Len(log) :
                 (log[k].slot \in OverrideSlots(action_fcurves) /\ pc # "done") =>
                     /\ (log[k].pm2idx \notin UsedIn(1)
                            => action_fcurves[log[k].slot][1] = <<0, 0>>)
                     /\ (log[k].animidx + 1 < NumAnims
                            => schedule[log[k].animidx + 1].next_anim_start_frame
                                   \in Frames(action_fcurves[log[k].slot]))
           /\ pc = "done" =>
                 \A k \in 1..Len(schedule) : \A n \in OverrideSlots(action_fcurves) :
                     n.p \notin UsedIn(k) =>
                         \A f \in schedule[k].frame_offset..ClipEnd(k) :
                             EvalAt(action_fcurves[n], f) = 0

\* the scale F-Curve of bone n in the action of track k (1, 2, ...)
TrackCurve(fcs, k, n) == Get(Get(fcs, k, EmptyMap), n, <<>>)

\* the scalehide bones of animations other than that of track k that are
\* left, with their F-Curves, at the end of the import
HiddenInTrack(k) ==
    {n \in AllScalehideBones \ Range(Get(animidx_to_scalehide_bones, k - 1, <<>>)) :
        n \in armbones'[0] /\ \E act \in DOMAIN fcurves' : n \in DOMAIN fcurves'[act]}

\* the first keyframe of bone n in track k after the end of the import: scale
\* 0 at frame 0, or the keyframe that the action had at frame 0
HiddenAtFrame0(k, n) ==
    /\ TrackCurve(fcurves', k, n) # <<>>
    /\ TrackCurve(fcurves', k, n)[1] =
           IF has_scale_keyframe_at_frame(Get(fcurves, k, EmptyMap), n, 0)
           THEN TrackCurve(fcurves, k, n)[1]
           ELSE <<0, 0>>

IsDefaultBone(n) ==
    \E b \in DOMAIN boneidx_to_default_scalehide_bonename :
        boneidx_to_default_scalehide_bonename[b] = n

RecordsOf(a, p) == {r \in Range(log) : r.animidx = a /\ r.pm2idx = p}

\* the frames of the samples that the keyframes of the records write on a
\* shape key or driver curve: their start and the start of the next keyframe
RealFrames(records) ==
    UNION {{r.frame_offset + r.keyframe_start}
              \cup (IF r.next_keyframe_start < 999
                    THEN {r.frame_offset + r.next_keyframe_start} ELSE {}) : r \in records}

\* the frames at which the animations that show submodel p start
ClipStarts(p) == {r.frame_offset : r \in {q \in Range(log) : q.pm2idx = p}}

\* C23: in the 1LONG methods the shape key curve of a submodel has a keyframe
\* at the start of every animation that shows the submodel, the extra one
\* when no keyframe of the animation starts there, and no keyframe other
\* than these and those of the keyframes; in the other methods the shape key
\* and driver curves have the keyframes of the keyframes only
C23_ExtraKeyframeAtStart ==
    /\ IsLong =>
          \A m \in DOMAIN sk_fcurves :
              /\ ClipStarts(m.p) \subseteq Frames(sk_fcurves[m])
              /\ Frames(sk_fcurves[m]) \subseteq
                     ClipStarts(m.p) \cup RealFrames({r \in Range(log) : r.pm2idx = m.p})
    /\ inp.anim_method = "SEPARATE_ARMATURES" =>
          \A m \in DOMAIN sk_fcurves :
              Frames(sk_fcurves[m]) = RealFrames(RecordsOf(m.a, m.p))
    /\ inp.anim_method = "DRIVER" =>
          \A act \in DOMAIN loc_fcurves : \A n \in DOMAIN loc_fcurves[act] :
              Frames(loc_fcurves[act][n]) = RealFrames(RecordsOf(act - 1, n.p))
    /\ \A p \in inp.animated :
          (\E r \in Range(log) : r.pm2idx = p) =>
              IF inp.anim_method = "DRIVER"
              THEN \E act \in DOMAIN loc_fcurves : \E n \in DOMAIN loc_fcurves[act] : n.p = p
              ELSE \E m \in DOMAIN sk_fcurves : m.p = p

\* a shape key curve in a 1LONG method with the extra keyframe at the start
\* of the second animation, whose first keyframe starts later
C23_Witness ==
    /\ IsLong
    /\ \E m \in DOMAIN sk_fcurves : \E r \in Range(log) :
          /\ r.pm2idx = m.p
          /\ r.frame_offset > 0
          /\ r.keyframe_start > 0
          /\ r.frame_offset \in Frames(sk_fcurves[m])
          /\ r.frame_offset \notin RealFrames({q \in Range(log) : q.pm2idx = m.p})

(***************************************************************************)
(* Properties of the shape key and driver keyframes                        *)
(***************************************************************************)
\* the records, in the order of the import, of the keyframes that show
\* submodel p in the animations of the set
RecordSeq(animations, p) ==
    SelectSeq(log, LAMBDA r : r.animidx \in animations /\ r.pm2idx = p)

\* the samples of the keyframes of the records: (start, interp_start) and,
\* when the next keyframe starts before 999, (next start, interp_end)
RECURSIVE BlendSamples(_)
BlendSamples(records) ==
    IF records = <<>> THEN <<>>
    ELSE LET r == records[Len(records)]
             sofar == BlendSamples(SubSeq(records, 1, Len(records) - 1))
             started == keyframe_insert(sofar, r.frame_offset + r.keyframe_start,
                                        r.interp_start)
         IN IF r.next_keyframe_start < 999
            THEN keyframe_insert(started, r.frame_offset + r.next_keyframe_start, r.interp[2])
            ELSE started

AllAnims == 0..NumAnims - 1

\* the driver curves of DRIVER mode hold the samples of the keyframes
CarrierSamples ==
    inp.anim_method = "DRIVER" =>
        \A act \in DOMAIN loc_fcurves : \A n \in DOMAIN loc_fcurves[act] :
            loc_fcurves[act][n] = BlendSamples(RecordSeq({act - 1}, n.p))

MaxRefs == 3

Importers == {"io_scene_ghs_mappm2", "io_scene_pm2"}

\* the keyframes of a pass: clip, joint, start frame after the repair,
\* submodel id
KeyframeRefs == [animidx : 0..1, boneidx : 0..1, keyframe_start : {0, 3}, pm2idx : {5, None}]

\* the loops visit the clips in order, the joints of a clip in order, and the
\* keyframes of a joint at increasing start frames
VisitedBefore(r, s) ==
    \/ r.animidx < s.animidx
    \/ r.animidx = s.animidx /\ r.boneidx < s.boneidx
    \/ r.animidx = s.animidx /\ r.boneidx = s.boneidx /\ r.keyframe_start < s.keyframe_start

KeyframeRefLists ==
    UNION {{l \in [1..n -> KeyframeRefs] :
               \A i \in 1..(n - 1) : VisitedBefore(l[i], l[i + 1])} : n \in 1..MaxRefs}

\* lines 462-500: the scalehide bone is retrieved or created; a new bone is
\* saved for later unless it is a DELETEME bone
scalehide_bone(r, dict, bones) ==
    LET existing == r.pm2idx \in DOMAIN dict /\ dict[r.pm2idx] \in bones
        has_pm2 == r.pm2idx # None /\ r.pm2idx >= 0
        name == IF existing THEN dict[r.pm2idx]
                ELSE IF has_pm2 THEN HideName(r.boneidx, r.pm2idx)
                ELSE DeletemeName(r.animidx, r.boneidx, r.keyframe_start)
    IN [name |-> name, created |-> ~existing, deleteme |-> ~existing /\ ~has_pm2,
        dict |-> IF ~existing /\ has_pm2 THEN Put(dict, r.pm2idx, name) ELSE dict]

\* older importer, lines 361-396: every new bone is saved for later
scalehide_bone_older(r, dict, bones) ==
    LET existing == r.pm2idx \in DOMAIN dict /\ dict[r.pm2idx] \in bones
        has_pm2 == r.pm2idx # None
        name == IF existing THEN dict[r.pm2idx]
                ELSE IF has_pm2 THEN HideName(r.boneidx, r.pm2idx)
                ELSE DeletemeName(r.animidx, r.boneidx, r.keyframe_start)
    IN [name |-> name, created |-> ~existing, deleteme |-> ~existing /\ ~has_pm2,
        dict |-> IF ~existing THEN Put(dict, r.pm2idx, name) ELSE dict]

\* one keyframe gets its bone
Allocate(slot) ==
    /\ args' = [args EXCEPT !.pm2idx_to_scalehidebone = slot.dict,
                            !.bones = @ \cup {slot.name},
                            !.deleteme_bonenames =
                                IF slot.deleteme THEN @ \cup {slot.name} ELSE @]
    /\ trace' = Append(trace, [ref |-> args.refs[Len(trace) + 1], slot |-> slot.name,
                               created |-> slot.created])

S_Keyframe ==
    /\ args # <<>>
    /\ args.importer = "io_scene_ghs_mappm2"
    /\ Len(trace) < Len(args.refs)
    /\ Allocate(scalehide_bone(args.refs[Len(trace) + 1], args.pm2idx_to_scalehidebone,
                               args.bones))

S_KeyframeOlder ==
    /\ args # <<>>
    /\ args.importer = "io_scene_pm2"
    /\ Len(trace) < Len(args.refs)
    /\ Allocate(scalehide_bone_older(args.refs[Len(trace) + 1],
                                     args.pm2idx_to_scalehidebone, args.bones))

\* the keyframe loop starts with the bones of the default body parts: none,
\* or submodel 5 on joint 0
InitSlots ==
    /\ \E importer \in Importers, refs \in KeyframeRefLists, default \in {{}, {5}} :
           args = [importer |-> importer, refs |-> refs,
                   pm2idx_to_scalehidebone |-> [p \in default |-> HideName(0, p)],
                   bones |-> {HideName(0, p) : p \in default},
                   deleteme_bonenames |-> {}]
    /\ trace = <<>>
    /\ NoCompile
    /\ NoBatch
    /\ NoMesh

NextSlots ==
    \/ S_Keyframe /\ UNCHANGED <<cvars, dvars, mvars>>
    \/ S_KeyframeOlder /\ UNCHANGED <<cvars, dvars, mvars>>

SpecSlots == InitSlots /\ [][NextSlots]_vars

\* C25: in one pass on one armature, the keyframes with the same submodel id
\* all get the same scalehide bone, whatever their joint and clip, and each
\* keyframe without a submodel gets a DELETEME bone that no other keyframe
\* gets
C25_SlotPerSubmodel ==
    args # <<>> =>
        \A i, j \in 1..Len(trace) :
            /\ (trace[i].ref.pm2idx # None /\ trace[i].ref.pm2idx = trace[j].ref.pm2idx)
                   => trace[i].slot = trace[j].slot
            /\ trace[i].ref.pm2idx = None
                   => /\ trace[i].slot \in args.deleteme_bonenames
                      /\ trace[i].created
                      /\ (i # j => trace[i].slot # trace[j].slot)

(***************************************************************************)
(* Properties of the VIF loop of Pm2Model.from_file                        *)
(***************************************************************************)
\* struct "<i": the signed value of four bytes
SInt32(b, off) ==
    UInt(b, off, 3)
        + 16777216 * (IF b[off + 4] >= 128 THEN b[off + 4] - 256 ELSE b[off + 4])

\* C26: a step of the VIF loop that reads an UNPACK_V4_32 or UNPACK_V4_16
\* command of count num takes the 4 bytes of the command and 16 * num resp.
\* 8 * num bytes of data from the file and appends 16 * num bytes to
\* vu_memory: the data as it is, resp. each signed 16-bit value as a signed
\* 32-bit value; a step that reads NOP, STCYCL or MSCNT takes the 4 bytes of
\* the command and leaves vu_memory as it is
C26_VifCommands ==
    [][(bpc = "decoding" /\ dpc = "vif" /\ dpc' = "vif" /\ fpos' # fpos) =>
          LET cmd == CurFile[fpos + 4]
              num == CurFile[fpos + 3]
              old == Len(vu_memory)
          IN /\ cmd \in {VIF_NOP, VIF_STCYCL, VIF_MSCNT, VIF_UNPACK_V4_32, VIF_UNPACK_V4_16}
             /\ cmd = VIF_UNPACK_V4_32 =>
                    /\ fpos' = fpos + 4 + 16 * num
                    /\ Len(vu_memory') = old + 16 * num
                    /\ vu_memory' = vu_memory \o SubSeq(CurFile, fpos + 5, fpos + 4 + 16 * num)
             /\ cmd = VIF_UNPACK_V4_16 =>
                    /\ fpos' = fpos + 4 + 8 * num
                    /\ Len(vu_memory') = old + 16 * num
                    /\ SubSeq(vu_memory', 1, old) = vu_memory
                    /\ \A i \in 1..(4 * num) :
                           SInt32(vu_memory', old + 4 * (i - 1))
                               = SInt16(CurFile, fpos + 4 + 2 * (i - 1))
             /\ cmd \in {VIF_NOP, VIF_STCYCL, VIF_MSCNT} =>
                    /\ fpos' = fpos + 4
                    /\ vu_memory' = vu_memory]_vars

\* a NOP, a STCYCL and an UNPACK_V4_16 of three quadwords with a negative
\* value have been read
C26_Witness ==
    /\ bpc = "decoding"
    /\ dpc = "vif"
    /\ command = VIF_UNPACK_V4_16
    /\ CurFile[fpos - 28] = VIF_STCYCL
    /\ CurFile[fpos - 32] = VIF_NOP
    /\ Len(vu_memory) = 48
    /\ SInt32(vu_memory, 32) = -32768

(***************************************************************************)
(* Properties of the frames of the 1LONG methods                           *)
(***************************************************************************)
\* the frames of the shape key samples that the keyframe of record r writes:
\* its start, the start of the next keyframe, and the start of the animation
BlendFrames(r) ==
    IF r.pm2idx \in inp.animated THEN RealFrames({r}) \cup {r.frame_offset} ELSE {}

\* C27: in the 1LONG methods every scale-1 keyframe and every shape key
\* keyframe written for a keyframe of an animation lies from the start frame
\* of the animation up to the frame before the start of the next one, and so
\* does every scale-0 keyframe written on the keyframe's scalehide bone by
\* lines 541-570 (the hide at current_anim_endhide_frame is not one of them)
C27_SamplesInsideClip ==
    IsLong =>
        \A i \in 1..Len(log) :
            LET r == log[i]
                lo == schedule[r.animidx + 1].frame_offset
                hi == schedule[r.animidx + 1].next_anim_start_frame
            IN /\ \A j \in 1..Len(r.samples) :
                      /\ r.samples[j][2] < hi
                      /\ r.samples[j][3] = 1 => lo <= r.samples[j][2]
               /\ \A f \in BlendFrames(r) : lo <= f /\ f < hi

\* C28: in the 1LONG methods the extra shape key keyframe at the start of an
\* animation does not change a keyframe that is there already: once the
\* animation is done, the shape key curve of a submodel has, at the start
\* frame of the animation, the interp_start of the keyframe of the animation
\* that starts there (for a joint whose keyframes start at increasing frames,
\* so that no other keyframe of the joint is written at that frame)
C28_StartValueKept ==
    IsLong =>
        \A i \in 1..Len(log) :
            LET r == log[i]
            IN (/\ pc = "anim_loop"
                /\ animidx > r.animidx
                /\ r.pm2idx \in inp.animated
                /\ r.keyframe_start = 0
                /\ Increasing(inp.anims[r.animidx + 1].animation_data[r.boneidx + 1])) =>
                   \E m \in DOMAIN sk_fcurves :
                       /\ m.p = r.pm2idx
                       /\ <<r.frame_offset, r.interp_start>> \in Range(sk_fcurves[m])

(***************************************************************************)
(* Properties of the swaps of the submodel of one joint                    *)
(***************************************************************************)
MaxSwapKeyframes == 3

MaxSwapClips == 2

SwapKeyframes ==
    [keyframe_start : {0, 1, 3}, pm2 : Pm2Ids \cup {None}, interp_type : {1},
     interp_start : {0}, interp_delta : {0}]

\* keyframe lists with strictly increasing keyframe_start
SwapLists(n) == {l \in KeyframeLists(SwapKeyframes, n) : Increasing(l)}

\* the keyframe of a later clip
LaterSwapKeyframes ==
    [keyframe_start : {0, 1}, pm2 : Pm2Ids, interp_type : {1}, interp_start : {0},
     interp_delta : {0}]

\* clips of one joint, with or without a default submodel, whose keyframes
\* start at increasing frames
SwapInputs ==
    [anim_method : AnimMethods,
     defaultbodyparts : {<<None>>, <<5>>},
     anims : ClipLists(Anims1({2}, {<<1>>}, SwapLists(MaxSwapKeyframes)),
                       Anims1({2}, {<<1>>}, KeyframeLists(LaterSwapKeyframes, 1)),
                       MaxSwapClips),
     animated : {{5}},
     missing : {{}}]

InitSwap ==
    /\ inp \in SwapInputs
    /\ pc = "load_defaults"
    /\ InitCompile
    /\ NoBatch
    /\ NoAlgebra
    /\ NoMesh

SpecSwap == InitSwap /\ [][Next]_vars

\* the action that holds clip k (1, 2, ...) and the frames of the clip in it
ClipAction(k) == IF IsLong THEN 0 ELSE k

ClipFrames(k) ==
    IF IsLong THEN schedule[k].frame_offset..ClipEnd(k) ELSE 0..schedule[k].last_frame

\* the scalehide bones with an F-Curve in the action of clip k that are not
\* the bone of a default submodel: those of the submodels of the keyframes
\* and the DELETEME bones
SwapSlots(k) ==
    LET action_fcurves == Get(fcurves, ClipAction(k), EmptyMap)
    IN {n \in DOMAIN action_fcurves :
           /\ n.kind \in {"hide", "DELETEME"}
           /\ \A b \in DOMAIN boneidx_to_default_scalehide_bonename :
                 boneidx_to_default_scalehide_bonename[b] # n}

\* the bones of SwapSlots(k) that are shown at frame f
ShownAt(k, f) ==
    {n \in SwapSlots(k) : EvalAt(fcurves[ClipAction(k)][n], f) = 1}

\* C29 as stated: when the keyframes of the joint start at strictly
\* increasing frames, then in every method, once the keyframes of a clip are
\* processed, at most one scalehide bone of the keyframes (the default
\* submodel's bone left aside) has scale 1 at any frame of the clip
C29_AsStated ==
    pc \in {"anim_loop", "done"} =>
        \A k \in 1..Len(schedule) : \A f \in ClipFrames(k) :
            Cardinality(ShownAt(k, f)) <= 1

\* C29: when the keyframes of the joint start at strictly increasing frames,
\* then in every method, once the keyframes of a clip are processed, at most
\* one scalehide bone of a submodel of the keyframes (the default submodel's
\* bone and the DELETEME bones left aside) has scale 1 at any frame of the
\* clip, also when a submodel comes back after another one
C29_OneSlotShown ==
    pc \in {"anim_loop", "done"} =>
        \A k \in 1..Len(schedule) : \A f \in ClipFrames(k) :
            Cardinality({n \in ShownAt(k, f) : n.kind = "hide"}) <= 1

\* a clip of three keyframes is processed, the first and the third with the
\* same submodel and the second with another one, and each of the two bones
\* is shown at some frame of the clip
C29_Witness ==
    /\ pc = "anim_loop"
    /\ Len(log) >= 3
    /\ log[1].animidx = log[3].animidx
    /\ log[1].pm2idx = log[3].pm2idx
    /\ log[1].pm2idx # None
    /\ log[2].pm2idx \notin {None, log[1].pm2idx}
    /\ log[1].slot = log[3].slot
    /\ \E f, g \in ClipFrames(1) :
           /\ ShownAt(1, f) = {log[1].slot}
           /\ ShownAt(1, g) = {log[2].slot}

(***************************************************************************)
(* Termination of Pm2Model.from_file                                       *)
(***************************************************************************)
MaxLiveGroups == 2

\* files of pm2type 18: one group, or several groups of 16-bit values, cut
\* after any number of bytes; whole files whose first or second group has a
\* VIF command the decoder does not know or too little data
LiveFiles ==
    UNION {{FileOf(Magic, 18, Len(gs), gs, t) : t \in 0..16 + Len(Flatten(gs))} :
              gs \in GroupSeqs(GoodGroups(18), 1) \cup GroupSeqs({GroupShort}, MaxLiveGroups)}
        \cup {FileOf(Magic, 18, Len(gs), gs, 16 + Len(Flatten(gs))) :
                 gs \in {<<g>> : g \in BadGroups \cup ShortGroups(18)}
                           \cup {<<GroupPlain, g>> : g \in BadGroups \cup ShortGroups(18)}}

InitLive ==
    /\ \E f \in LiveFiles :
          /\ batch = <<f.file>>
          /\ origin = <<f.origin>>
    /\ bpc = "files"
    /\ InitDecode
    /\ NoCompile
    /\ NoAlgebra
    /\ NoMesh

\* load_pm2 runs on: a step that can be taken is taken
SpecBatchLive == InitLive /\ [][NextBatch]_vars /\ WF_vars(NextBatch)

\* from_file has raised an error
Failed == dpc = "returned" /\ dresult \in {"EOFError", "struct.error", "ValueError"}

\* C30: from_file ends on every file, whatever its bytes are. Every pass of
\* the VIF loop that reads a command takes at least the 4 bytes of the
\* command from the file or raises, every pass of the Prim loop takes at least
\* the 16 bytes of a Prim header from vu_memory or raises, and every group
\* that was decoded took at least one command from the file; a file that is
\* being decoded leads to from_file having returned a Pm2Model or raised
C30_Terminates ==
    /\ [][/\ (bpc = "decoding" /\ dpc = "header")
                 => fpos' = 16 \/ Failed'
          /\ (bpc = "decoding" /\ dpc = "vif" /\ command # VIF_MSCNT)
                 => (fpos' >= fpos + 4 /\ fpos' <= Len(CurFile)) \/ Failed'
          /\ (bpc = "decoding" /\ dpc = "prims")
                 => (vpos' >= vpos + 16 /\ vpos' <= Len(vu_memory)) \/ Failed'
          /\ (bpc = "decoding" /\ dpc = "prims" /\ x' # x)
                 => (x' = x + 1 /\ x' <= numprimlists /\ fpos >= 16 + 4 * x')]_vars
    /\ (bpc = "decoding" /\ dpc # "returned")
           ~> (dpc = "returned" /\ (dresult = "Model" \/ Failed))

\* from_file has decoded the first group of a file that announces two and
\* raised EOFError in the second, cut short
C30_Witness ==
    /\ bpc = "decoding"
    /\ Failed
    /\ dresult = "EOFError"
    /\ Len(primlists) = 1
    /\ numprimlists = 2
    /\ fpos = Len(CurFile)
====
